---- MODULE Spec2Model ----
(***************************************************************************)
(* Model of ndx-icephys-meta (src/pynwb/ndx_icephys_meta/icephys.py):      *)
(*   - HierarchicalDynamicTableMixin: get_hierarchy_column_name,           *)
(*     get_targets, to_hierarchical_dataframe, to_denormalized_dataframe   *)
(*   - AlignedDynamicTable: __init__, add_category, add_column, add_row,   *)
(*     to_dataframe, __getitem__                                           *)
(*                                                                         *)
(*   - IntracellularRecordingsTable: __init__, add_recording; the level    *)
(*     tables' add_* row builders; ICEphysFile: get_* / add_* and          *)
(*     get_icephys_meta_parent_table                                       *)
(*                                                                         *)
(* Six specifications share the module:                                    *)
(*   Spec      the aligned table group (main table + category tables)      *)
(*   SpecView  an aligned group filled by successful calls, and its views  *)
(*             to_dataframe and __getitem__                                *)
(*   SpecCols  column declarations of hierarchical tables and the          *)
(*             hierarchy-column / target-chain resolution                  *)
(*   SpecHier  a populated hierarchy level2 -> level1 -> level0 and its    *)
(*             flattening and denormalization                              *)
(*   SpecRec   an IntracellularRecordingsTable: construction with          *)
(*             category tables, and add_recording                          *)
(*   SpecFile  an ICEphysFile and its five icephys tables                  *)
(*                                                                         *)
(* Encoding conventions:                                                   *)
(*   - a table is [id |-> Seq(Int), cols |-> Seq(column)]; a column is     *)
(*     [name, region, table, data]; region = TRUE is a DynamicTableRegion  *)
(*     column (indexed: every cell is a sequence of 0-based row positions  *)
(*     of the target table `table`), region = FALSE a plain VectorData     *)
(*     column whose cells are integers.                                    *)
(*   - a column label of a dataframe is a sequence of strings: the tuple   *)
(*     (a, b) is <<a, b>> and the plain name c is <<c>>.                   *)
(*   - a dataframe is [err, index_names, columns, index, data]; err = ""   *)
(*     for a returned frame, otherwise the name of the exception raised.   *)
(***************************************************************************)
EXTENDS Integers, Sequences, FiniteSets, TLC

VARIABLES
    tabs,             \* hierarchy world: table name -> table
    out,              \* hierarchy world: the last call and what it returned
    main,             \* aligned group: the main DynamicTable
    category_tables,  \* aligned group: OrderedDict name -> table, as a sequence
    constructed,      \* aligned group: __init__ has returned successfully
    last,             \* aligned group: the last call, its arguments and result
    allOk,            \* aligned group: no add_* call has raised since construction
    nwb               \* ICEphysFile: the icephys table held by each attribute

vars == <<tabs, out, main, category_tables, constructed, last, allOk, nwb>>
hvars == <<tabs, out>>
avars == <<main, category_tables, constructed, last, allOk>>

----------------------------------------------------------------------------
(* Bounds *)

MaxRows == 2        \* rows per table
MaxGroup == 2       \* entries of one row group (one cell of a region column)
MaxCells == 6       \* rows + group entries + added columns, whole hierarchy
MaxExtraCols == 2   \* columns added to one table after construction

----------------------------------------------------------------------------
(* Generic helpers *)

RECURSIVE Concat(_)
Concat(ss) == IF ss = <<>> THEN <<>> ELSE Head(ss) \o Concat(Tail(ss))

RECURSIVE SumSeq(_)
SumSeq(s) == IF s = <<>> THEN 0 ELSE Head(s) + SumSeq(Tail(s))

SeqsUpTo(S, n) == UNION {[1..k -> S] : k \in 0..n}

Range(s) == {s[i] : i \in 1..Len(s)}

Min(S) == CHOOSE x \in S : \A y \in S : x <= y

----------------------------------------------------------------------------
(* The tables of the hierarchy world (test_hierarchical_dynamic_table_mixin *)
(* setUp): level0 and aux are plain DynamicTables, level1 and level2 are    *)
(* HierarchicalTableLevel tables, whose class derives from the mixin.       *)

TableNames == {"level0", "aux", "level1", "level2"}

Hier == {"level1", "level2"}

\* Tables that exist when `t` is constructed: a region column of t can only
\* name one of them (lower tables are built before the tables referencing them).
Lower(t) ==
    CASE t = "level2" -> {"level0", "aux", "level1"}
      [] t = "level1" -> {"level0", "aux"}
      [] OTHER -> {}

NoneName == "None"

HCol == "child_table_refs"

ExtraNames == {"ra", "rb"}

DataCol(n, d) == [name |-> n, region |-> FALSE, table |-> "", data |-> d]

RegionCol(n, tgt, d) == [name |-> n, region |-> TRUE, table |-> tgt, data |-> d]

colnames(t) == [i \in 1..Len(tabs[t].cols) |-> tabs[t].cols[i].name]

NRows(t) == Len(tabs[t].id)

Column(t, name) ==
    tabs[t].cols[CHOOSE i \in 1..Len(tabs[t].cols) : tabs[t].cols[i].name = name]

----------------------------------------------------------------------------
(* HierarchicalDynamicTableMixin.get_hierarchy_column_name *)

\* the for loop over self.columns, from column i on, with first_col so far
RECURSIVE ScanColumns(_, _, _)
ScanColumns(cols, i, first_col) ==
    IF i > Len(cols) THEN first_col
    ELSE IF cols[i].region
         THEN IF cols[i].table \in Hier
              THEN cols[i].name
              ELSE ScanColumns(cols, i + 1, cols[i].name)
         ELSE ScanColumns(cols, i + 1, first_col)

\* the loop without the early return on a hierarchical target
RECURSIVE ScanColumnsNoReturn(_, _, _)
ScanColumnsNoReturn(cols, i, first_col) ==
    IF i > Len(cols) THEN first_col
    ELSE IF cols[i].region
         THEN ScanColumnsNoReturn(cols, i + 1, cols[i].name)
         ELSE ScanColumnsNoReturn(cols, i + 1, first_col)

get_hierarchy_column_name_no_return(t) ==
    ScanColumnsNoReturn(tabs[t].cols, 1, NoneName)

get_hierarchy_column_name(t) ==
    ScanColumns(tabs[t].cols, 1, NoneName)

\* hcol_target of get_targets / to_hierarchical_dataframe
hcol_target(t) == Column(t, get_hierarchy_column_name(t)).table

----------------------------------------------------------------------------
(* HierarchicalDynamicTableMixin.get_targets *)

RECURSIVE get_targets(_, _)

\* get_targets that forgets the recursion into the target
get_targets_no_recursion(t, include_self) ==
    IF hcol_target(t) \in Hier
    THEN (IF include_self THEN <<t>> ELSE <<>>) \o <<hcol_target(t)>>
    ELSE <<hcol_target(t)>>

get_targets(t, include_self) ==
    IF hcol_target(t) \in Hier
    THEN (IF include_self THEN <<t>> ELSE <<>>)
            \o <<hcol_target(t)>>
            \o get_targets(hcol_target(t), FALSE)
    ELSE <<hcol_target(t)>>

----------------------------------------------------------------------------
(* Calls and their results in the hierarchy world *)

NoOut == [op |-> "none", t |-> "", flag |-> FALSE, val |-> <<>>]

Call(op, t, flag, val) == [op |-> op, t |-> t, flag |-> flag, val |-> val]

\* rows, group entries and added columns of the whole hierarchy
RECURSIVE GroupEntries(_)
GroupEntries(cols) ==
    IF cols = <<>> THEN 0
    ELSE (IF Head(cols).region
          THEN SumSeq([i \in 1..Len(Head(cols).data) |-> Len(Head(cols).data[i])])
          ELSE 0) + GroupEntries(Tail(cols))

ExtraCols(t) == Len(tabs[t].cols) - (IF t \in Hier THEN 1 ELSE 0)

Cells ==
    SumSeq([i \in 1..4 |->
        LET t == <<"level0", "aux", "level1", "level2">>[i]
        IN NRows(t) + GroupEntries(tabs[t].cols) + ExtraCols(t)])

EmptyTable(cols) == [id |-> <<>>, cols |-> cols]

\* A call on the aligned group: the arguments it was given, the exception
\* class and message when it raised (both "" when it returned), and what it
\* returned or what the message reports.
NoCall == [op |-> "none", args |-> <<>>, exc |-> "", err |-> "", val |-> <<>>]

Returned(op, args, val) ==
    [op |-> op, args |-> args, exc |-> "", err |-> "", val |-> val]

Raised(op, args, exc, err, val) ==
    [op |-> op, args |-> args, exc |-> exc, err |-> err, val |-> val]

\* the outcome of a call that raises ValueError(e) unless e = ""
Outcome(op, args, e, val) ==
    IF e = "" THEN Returned(op, args, val) ELSE Raised(op, args, "ValueError", e, val)

\* setUp: level1 = HierarchicalTableLevel(child_table=level0); level2 is built
\* on level1 (as in the tests) or directly on level0.
InitTabs(child2) ==
    [t \in TableNames |->
        CASE t = "level1" -> EmptyTable(<<RegionCol(HCol, "level0", <<>>)>>)
          [] t = "level2" -> EmptyTable(<<RegionCol(HCol, child2, <<>>)>>)
          [] OTHER -> EmptyTable(<<>>)]

\* A table of an ICEphysFile attribute: oid identifies the object (0: the
\* attribute is None), target is the oid of the table its hierarchy column
\* indexes, id the row ids, refs the hierarchy column's row groups and
\* stimulus_type the values of that column (sequential recordings only).
\* The rows of the intracellular_recordings table are kept in main and
\* category_tables.
NoTable == [oid |-> 0, target |-> 0, id |-> <<>>, refs |-> <<>>, stimulus_type |-> <<>>]

\* the attributes of ICEphysFile that hold the icephys tables, lowest first
Levels ==
    <<"intracellular_recordings", "icephys_simultaneous_recordings",
      "icephys_sequential_recordings", "icephys_repetitions",
      "icephys_experimental_conditions">>

\* ICEphysFile(...) constructed without any icephys table
NoFile == [k \in 1..Len(Levels) |-> NoTable]

InitAligned ==
    /\ nwb = NoFile
    /\ main = EmptyTable(<<>>)
    /\ category_tables = <<>>
    /\ constructed = FALSE
    /\ last = NoCall
    /\ allOk = TRUE

InitH ==
    /\ \E child2 \in {"level0", "level1"} : tabs = InitTabs(child2)
    /\ out = NoOut
    /\ InitAligned

----------------------------------------------------------------------------
(* SpecCols: column declarations, hierarchy column and target chain *)

\* DynamicTable.add_column(name, table=target) on an empty hierarchical table:
\* the new column is appended to the declaration order.
AddRegionColumn(t, name, tgt) ==
    /\ t \in Hier /\ tgt \in Lower(t)
    /\ NRows(t) = 0
    /\ name \notin Range(colnames(t))
    /\ ExtraCols(t) < MaxExtraCols
    /\ tabs' = [tabs EXCEPT ![t].cols = Append(@, RegionCol(name, tgt, <<>>))]
    /\ out' = NoOut
    /\ UNCHANGED <<avars, nwb>>

\* DynamicTable.add_column(name, data=[]) on an empty table
AddPlainColumn(t, name) ==
    /\ t \in TableNames \ {"aux"}
    /\ NRows(t) = 0
    /\ name \notin Range(colnames(t))
    /\ ExtraCols(t) < MaxExtraCols
    /\ Cells < MaxCells
    /\ tabs' = [tabs EXCEPT ![t].cols = Append(@, DataCol(name, <<>>))]
    /\ out' = NoOut
    /\ UNCHANGED <<avars, nwb>>

GetHierarchyColumnName(t) ==
    /\ t \in Hier
    /\ out' = Call("get_hierarchy_column_name", t, FALSE, get_hierarchy_column_name(t))
    /\ UNCHANGED <<tabs>>
    /\ UNCHANGED <<avars, nwb>>

GetTargets(t, include_self) ==
    /\ t \in Hier
    /\ out' = Call("get_targets", t, include_self, get_targets(t, include_self))
    /\ UNCHANGED <<tabs>>
    /\ UNCHANGED <<avars, nwb>>

NextCols ==
    \/ \E t \in Hier, n \in ExtraNames, tgt \in TableNames : AddRegionColumn(t, n, tgt)
    \/ \E t \in TableNames, n \in ExtraNames : AddPlainColumn(t, n)
    \/ \E t \in Hier : GetHierarchyColumnName(t)
    \/ \E t \in Hier, s \in BOOLEAN : GetTargets(t, s)

SpecCols == InitH /\ [][NextCols]_vars

----------------------------------------------------------------------------
(* HierarchicalDynamicTableMixin.to_hierarchical_dataframe *)

ErrFrame(e) ==
    [err |-> e, index_names |-> <<>>, columns |-> <<>>, index |-> <<>>, data |-> <<>>]

Frame(names, columns, index, data) ==
    [err |-> "", index_names |-> names, columns |-> columns,
     index |-> index, data |-> data]

\* the columns of self other than the hierarchy column, in self.colnames order
OtherCols(t) ==
    SelectSeq(tabs[t].cols, LAMBDA c : c.name # get_hierarchy_column_name(t))

\* hcol[:]: the row group of every row of self
Groups(t) == Column(t, get_hierarchy_column_name(t)).data

\* the rows of the group in reverse order
RowTuplesReversed(tgt, group) ==
    [j \in 1..Len(group) |->
        <<tabs[tgt].id[group[Len(group) + 1 - j] + 1]>> \o
        [i \in 1..Len(tabs[tgt].cols) |->
            tabs[tgt].cols[i].data[group[Len(group) + 1 - j] + 1]]]

\* row_df.itertuples(index=True) of the rows of a plain table `tgt` selected
\* by one row group: (id, value of every column), in the order of the group
RowTuples(tgt, group) ==
    [j \in 1..Len(group) |->
        <<tabs[tgt].id[group[j] + 1]>> \o
        [i \in 1..Len(tabs[tgt].cols) |-> tabs[tgt].cols[i].data[group[j] + 1]]]

\* the ids of the rows of `tgt` selected by one row group (row_df_level2[0])
GroupIds(tgt, group) == [j \in 1..Len(group) |-> tabs[tgt].id[group[j] + 1]]

\* index_data of row row_index (0-based) before anything of the target is added
IndexData(t, row_index) ==
    <<tabs[t].id[row_index + 1]>> \o
    [i \in 1..Len(OtherCols(t)) |-> OtherCols(t)[i].data[row_index + 1]]

\* [(self.name, 'id')] + [(self.name, colname) for the other columns]
LevelNames(t) ==
    <<<<t, "id">>>> \o [i \in 1..Len(OtherCols(t)) |-> <<t, OtherCols(t)[i].name>>]

\* columns when row_df.columns / hcol_target.colnames is `cn` and the target tgt
ColumnLabels(tgt, cn, flat) ==
    <<<<tgt, "id">>>> \o
    [i \in 1..Len(cn) |-> IF flat THEN <<cn[i]>> ELSE <<tgt, cn[i]>>]

\* Case 1, names set inside the loop at row_index == 0: row_df is the frame
\* of the first row group, whose columns are the target's columns
LoopLabels(t, flat) ==
    [err |-> "",
     index_names |-> LevelNames(t),
     columns |-> ColumnLabels(hcol_target(t), colnames(hcol_target(t)), flat)]

\* the fallback without the other columns of self among the index names
FallbackLabelsIdOnly(t, flat) ==
    [err |-> "",
     index_names |-> <<<<t, "id">>>>,
     columns |-> ColumnLabels(hcol_target(t), colnames(hcol_target(t)), flat)]

\* Case 1, names set after the loop (index_names is None): with
\* flat_column_index the columns are read from the loop variable row_df, which
\* is unbound when the loop over hcol[:] never ran
FallbackLabels(t, flat) ==
    IF flat /\ NRows(t) = 0
    THEN [err |-> "UnboundLocalError", index_names |-> <<>>, columns |-> <<>>]
    ELSE [err |-> "",
          index_names |-> LevelNames(t),
          columns |-> ColumnLabels(hcol_target(t), colnames(hcol_target(t)), flat)]

\* positions of the rows of frame f whose outermost index value is g, in
\* frame order: f.loc[[g]]
LocRows(f, g) ==
    SelectSeq([k \in 1..Len(f.index) |-> k], LAMBDA k : f.index[k][1] = g)

\* Case 2, names set after the loop: self's levels, then the target's levels
FallbackLabels2(t, hcol_hdf) ==
    [err |-> "",
     index_names |-> LevelNames(t) \o hcol_hdf.index_names,
     columns |-> hcol_hdf.columns]

RECURSIVE to_hierarchical_dataframe(_, _)

to_hierarchical_dataframe(t, flat) ==
    LET tgt == hcol_target(t)
        n == NRows(t)
        groups == Groups(t)
    IN  IF tgt \notin Hier
        THEN \* Case 1: the target is a regular DynamicTable
            LET data == Concat([r \in 1..n |-> RowTuples(tgt, groups[r])])
                index == Concat([r \in 1..n |->
                            [j \in 1..Len(groups[r]) |-> IndexData(t, r - 1)]])
                labels == IF n > 0 /\ Len(groups[1]) > 0
                          THEN LoopLabels(t, flat)
                          ELSE FallbackLabels(t, flat)
            IN  IF labels.err # ""
                THEN ErrFrame(labels.err)
                ELSE Frame(labels.index_names, labels.columns, index, data)
        ELSE \* Case 2: the target is itself hierarchical
            LET hcol_hdf == to_hierarchical_dataframe(tgt, flat)
                ids(r) == GroupIds(tgt, groups[r])
                Expand(r, g) ==
                    [m \in 1..Len(LocRows(hcol_hdf, g)) |->
                        [index |-> IndexData(t, r - 1)
                                      \o hcol_hdf.index[LocRows(hcol_hdf, g)[m]],
                         data |-> hcol_hdf.data[LocRows(hcol_hdf, g)[m]]]]
                rows == Concat([r \in 1..n |->
                            Concat([j \in 1..Len(ids(r)) |-> Expand(r, ids(r)[j])])])
                labels == FallbackLabels2(t, hcol_hdf)
            IN  IF hcol_hdf.err # ""
                THEN hcol_hdf
                ELSE IF \E r \in 1..n : \E j \in 1..Len(ids(r)) :
                            LocRows(hcol_hdf, ids(r)[j]) = <<>>
                THEN ErrFrame("KeyError")   \* .loc of a label not in the index
                ELSE Frame(labels.index_names, labels.columns,
                           [k \in 1..Len(rows) |-> rows[k].index],
                           [k \in 1..Len(rows) |-> rows[k].data])

----------------------------------------------------------------------------
(* HierarchicalDynamicTableMixin.to_denormalized_dataframe *)

\* the characters of a column name, for the names the model declares
Chars(name) ==
    CASE name = "ra" -> <<"r", "a">>
      [] name = "rb" -> <<"r", "b">>

\* (cn[0], cn[1:] if len(cn) > 2 else cn[1]) for one column label cn of
\* flat_df: a tuple (table, column) is indexed by component, a plain column
\* name, being a string, by character
mi_tuple(cn) ==
    IF Len(cn) >= 2
    THEN <<cn[1], IF Len(cn) > 2 THEN Tail(cn) ELSE cn[2]>>
    ELSE LET chars == Chars(cn[1])
         IN  <<chars[1], IF Len(chars) > 2 THEN Tail(chars) ELSE chars[2]>>

DenormErr(e) == [err |-> e, columns |-> <<>>, data |-> <<>>]

\* hier_df.reset_index(): the index levels become the first columns, named
\* by the level names
to_denormalized_dataframe(t, flat) ==
    LET hier_df == to_hierarchical_dataframe(t, TRUE)
        flat_columns == hier_df.index_names \o hier_df.columns
    IN  IF hier_df.err # "" THEN DenormErr(hier_df.err)
        ELSE [err |-> "",
              columns |-> IF flat THEN flat_columns
                          ELSE [i \in 1..Len(flat_columns) |-> mi_tuple(flat_columns[i])],
              data |-> [k \in 1..Len(hier_df.data) |->
                           hier_df.index[k] \o hier_df.data[k]]]

----------------------------------------------------------------------------
(* SpecHier: a populated hierarchy and its flattening *)

\* the ids the rows are given: level0 10, 11, ... (as in the tests); level1
\* 0 or 5 + position, so that ids may repeat and differ from positions;
\* level2 the default id, the row position
RowIds(t) ==
    CASE t = "level0" -> {NRows(t) + 10}
      [] t = "level1" -> {0, NRows(t) + 5}
      [] OTHER -> {NRows(t)}

\* the row groups a new row of t may reference: existing rows of the target
RowGroups(t) ==
    IF t \in Hier
    THEN SeqsUpTo(0..(NRows(hcol_target(t)) - 1), MaxGroup)
    ELSE {<<>>}

\* the value a new row is given in the plain column declared at position i:
\* distinct per column and per row
CellValue(t, i) == 100 * i + NRows(t)

\* DynamicTable.add_row(id=id, child_table_refs=group, <name>=<value>, ...)
AddRow(t, id, group) ==
    /\ t \in TableNames \ {"aux"}
    /\ NRows(t) < MaxRows
    /\ id \in RowIds(t)
    /\ group \in RowGroups(t)
    /\ Cells + 1 + Len(group) <= MaxCells
    /\ tabs' = [tabs EXCEPT
            ![t].id = Append(@, id),
            ![t].cols = [i \in 1..Len(@) |->
                [@[i] EXCEPT !.data =
                    Append(@, IF tabs[t].cols[i].region THEN group
                              ELSE CellValue(t, i))]]]
    /\ out' = NoOut
    /\ UNCHANGED <<avars, nwb>>

ToHierarchicalDataframe(t, flat) ==
    /\ t \in Hier
    /\ out' = Call("to_hierarchical_dataframe", t, flat,
                   to_hierarchical_dataframe(t, flat))
    /\ UNCHANGED <<tabs>>
    /\ UNCHANGED <<avars, nwb>>

ToDenormalizedDataframe(t, flat) ==
    /\ t \in Hier
    /\ out' = Call("to_denormalized_dataframe", t, flat,
                   to_denormalized_dataframe(t, flat))
    /\ UNCHANGED <<tabs>>
    /\ UNCHANGED <<avars, nwb>>

NextHier ==
    \/ \E t \in TableNames, n \in ExtraNames : AddPlainColumn(t, n)
    \/ \E t \in TableNames \ {"aux"} :
          \E id \in RowIds(t), group \in RowGroups(t) : AddRow(t, id, group)
    \/ \E t \in Hier, flat \in BOOLEAN : ToHierarchicalDataframe(t, flat)
    \/ \E t \in Hier, flat \in BOOLEAN : ToDenormalizedDataframe(t, flat)

\* setUp of the tests: level2 -> level1 -> level0
InitHier ==
    /\ tabs = InitTabs("level1")
    /\ out = NoOut
    /\ InitAligned

SpecHier == InitHier /\ [][NextHier]_vars

----------------------------------------------------------------------------
(* AlignedDynamicTable: a main DynamicTable and its category tables.        *)
(* A table of the aligned world is [name, id, cols]; len(table) is the      *)
(* number of its ids.                                                       *)

CatNames == {"cat1", "cat2"}

MainName == "test_aligned_table"

NoId == -1                \* id=None

NotGiven == [given |-> FALSE, val |-> <<>>]

Given(v) == [given |-> TRUE, val |-> v]

\* the value stored in column `cname` position i of a table at row position r
ValueAt(i, r) == 100 * i + r

\* DynamicTable(name=nm, id=[first_id, first_id + 1, ...],
\*              columns=[VectorData("c1", data=arange(n))]);
\* first_id = 0 is the default id (the row position)
SideTable(nm, n, first_id) ==
    [name |-> nm,
     id |-> [r \in 1..n |-> first_id + r - 1],
     cols |-> <<DataCol("c1", [r \in 1..n |-> ValueAt(1, r - 1)])>>]

\* side tables with the default ids
SideTables == {SideTable(nm, n, 0) : nm \in CatNames, n \in 0..MaxRows}

\* side tables built with ids of their own
CustomIdTables == {SideTable(nm, n, 10) : nm \in CatNames, n \in 1..MaxRows}

LenT(tbl) == Len(tbl.id)

TColNames(tbl) == {tbl.cols[i].name : i \in 1..Len(tbl.cols)}

categories == [i \in 1..Len(category_tables) |-> category_tables[i].name]

\* the lookup that always finds the first category
CatIndexFirst(nm) == 1

CatIndex(nm) == CHOOSE i \in 1..Len(category_tables) : category_tables[i].name = nm

\* first position of every distinct element, in order: the keys of
\* OrderedDict([(k, -1) for k in in_categories])
RECURSIVE DistinctInOrder(_)
DistinctInOrder(s) ==
    IF s = <<>> THEN <<>>
    ELSE LET rest == DistinctInOrder(SubSeq(s, 1, Len(s) - 1))
         IN  IF s[Len(s)] \in Range(rest) THEN rest ELSE Append(rest, s[Len(s)])

\* __init__: in_categories after the defaulting of lines 240-241
InCategories(in_category_tables, in_categories) ==
    IF ~in_categories.given /\ in_category_tables.given
    THEN Given([i \in 1..Len(in_category_tables.val) |-> in_category_tables.val[i].name])
    ELSE in_categories

\* __init__: the main table, built with ids 0..n0-1 and no columns, after
\* super().__init__ and the resize of lines 254-261 (ids 0..k-1 appended when
\* the main table has no ids)
InitMain(n0, in_category_tables) ==
    LET n == IF in_category_tables.given /\ Len(in_category_tables.val) > 0 /\ n0 = 0
             THEN LenT(in_category_tables.val[1])
             ELSE n0
    IN  [name |-> MainName,
         id |-> [r \in 1..n |-> r - 1],
         cols |-> <<>>]

\* __init__: the error raised, "" when construction succeeds
InitError(n0, in_category_tables, in_categories) ==
    LET cats == InCategories(in_category_tables, in_categories)
        tbls == in_category_tables.val
        m == InitMain(n0, in_category_tables)
    IN  IF cats.given /\ ~in_category_tables.given
        THEN "Categories provided but no category_tables given"
        ELSE IF cats.given /\ Len(cats.val) # Len(tbls)
        THEN "category_tables given but categories specified"
        ELSE IF ~in_category_tables.given THEN ""
        ELSE IF \E i \in 1..Len(tbls) : tbls[i].name \notin Range(cats.val)
        THEN "does not appear in categories"
        ELSE IF \E i, j \in 1..Len(tbls) : i < j /\ tbls[i].name = tbls[j].name
        THEN "Duplicate table name"
        ELSE IF \E i \in 1..Len(tbls) : LenT(tbls[i]) # LenT(m)
        THEN "does not align"
        ELSE ""

\* dts filled in the order of the tables given
InitCategoryTablesAsGiven(in_category_tables, in_categories) ==
    IF ~in_category_tables.given THEN <<>> ELSE in_category_tables.val

\* __init__: dts, the category tables in the order of the categories
InitCategoryTables(in_category_tables, in_categories) ==
    IF ~in_category_tables.given THEN <<>>
    ELSE LET cats == DistinctInOrder(InCategories(in_category_tables, in_categories).val)
             tbls == in_category_tables.val
         IN  [k \in 1..Len(cats) |->
                 tbls[CHOOSE i \in 1..Len(tbls) : tbls[i].name = cats[k]]]

\* AlignedDynamicTable(id=arange(n0), category_tables=..., categories=...):
\* one constructor call per behaviour; a call that raises yields no object
Construct(n0, in_category_tables, in_categories) ==
    /\ ~constructed /\ last.op = "none"
    /\ LET e == InitError(n0, in_category_tables, in_categories)
           args == [n0 |-> n0, category_tables |-> in_category_tables,
                    categories |-> in_categories]
       IN  /\ last' = Outcome("__init__", args, e, <<>>)
           /\ IF e = ""
              THEN /\ constructed' = TRUE
                   /\ main' = InitMain(n0, in_category_tables)
                   /\ category_tables' =
                          InitCategoryTables(in_category_tables, in_categories)
              ELSE UNCHANGED <<constructed, main, category_tables>>
    /\ UNCHANGED <<allOk>>
    /\ UNCHANGED <<hvars, nwb>>

\* add_category without the row-count check
add_category_error_unaligned(category) ==
    IF category.name \in Range(categories)
    THEN "already in the table"
    ELSE ""

\* add_category without the check of the name
add_category_error_duplicates(category) ==
    IF LenT(category) # LenT(main)
    THEN "New category DynamicTable does not align"
    ELSE ""

\* add_category: the error raised, "" when the category is added
add_category_error(category) ==
    IF LenT(category) # LenT(main)
    THEN "New category DynamicTable does not align"
    ELSE IF category.name \in Range(categories)
    THEN "already in the table"
    ELSE ""

\* add_category with the two counts of the message exchanged
add_category_counts_swapped(category) ==
    [has |-> LenT(main), expected |-> LenT(category)]

\* add_category: the counts of 'it has %i rows expected %i'
add_category_counts(category) ==
    [has |-> LenT(category), expected |-> LenT(main)]

AddCategory(category) ==
    /\ constructed
    /\ LET e == add_category_error(category)
           val == IF e = "New category DynamicTable does not align"
                  THEN add_category_counts(category) ELSE <<>>
       IN  /\ last' = Outcome("add_category", [category |-> category], e, val)
           /\ allOk' = (allOk /\ e = "")
           /\ category_tables' =
                  IF e = "" THEN Append(category_tables, category) ELSE category_tables
    /\ UNCHANGED <<main, constructed>>
    /\ UNCHANGED <<hvars, nwb>>

\* DynamicTable.add_column(name, data) on one table: the error raised
dt_add_column_error(tbl, cname, n) ==
    IF cname \in TColNames(tbl) THEN "column already exists"
    ELSE IF n # LenT(tbl) THEN "column must have the same number of rows as 'id'"
    ELSE ""

\* DynamicTable.add_column(name, data=arange(n)) on one table
dt_add_column(tbl, cname, n) ==
    [tbl EXCEPT !.cols =
        Append(@, DataCol(cname, [r \in 1..n |-> ValueAt(Len(tbl.cols) + 1, r - 1)]))]

AddColumnArgs(cname, n, category_name) ==
    [name |-> cname, n |-> n, category |-> category_name]

\* add_column(name, data, category): category = "" stands for None
AddColumn(cname, n, category_name) ==
    /\ constructed
    /\ IF category_name = ""
       THEN LET e == dt_add_column_error(main, cname, n)
            IN  /\ last' = Outcome("add_column", AddColumnArgs(cname, n, category_name), e, <<>>)
                /\ allOk' = (allOk /\ e = "")
                /\ main' = IF e = "" THEN dt_add_column(main, cname, n) ELSE main
                /\ UNCHANGED category_tables
       ELSE IF category_name \notin Range(categories)
       THEN /\ last' = Raised("add_column", AddColumnArgs(cname, n, category_name),
                              "KeyError", "Category not in table", <<>>)
            /\ allOk' = FALSE
            /\ UNCHANGED <<main, category_tables>>
       ELSE LET i == CatIndex(category_name)
                e == dt_add_column_error(category_tables[i], cname, n)
            IN  /\ last' = Outcome("add_column", AddColumnArgs(cname, n, category_name), e, <<>>)
                /\ allOk' = (allOk /\ e = "")
                /\ category_tables' =
                       IF e = ""
                       THEN [category_tables EXCEPT
                                ![i] = dt_add_column(category_tables[i], cname, n)]
                       ELSE category_tables
                /\ UNCHANGED main
    /\ UNCHANGED <<constructed>>
    /\ UNCHANGED <<hvars, nwb>>

\* add_row without the check of enforce_unique_id
dt_add_row_error_ids_unchecked(tbl, keysOk, row_id, enforce_unique_id) ==
    IF ~keysOk THEN "row data keys don't match available columns" ELSE ""

\* DynamicTable.add_row on one table: the error raised; keysOk says that the
\* keys of the row data are exactly the table's columns
dt_add_row_error(tbl, keysOk, row_id, enforce_unique_id) ==
    IF ~keysOk THEN "row data keys don't match available columns"
    ELSE IF enforce_unique_id
            /\ (IF row_id = NoId THEN Len(tbl.id) ELSE row_id) \in Range(tbl.id)
    THEN "id already in the table"
    ELSE ""

\* DynamicTable.add_row on one table: id None is the row position
dt_add_row(tbl, row_id) ==
    [tbl EXCEPT
        !.id = Append(@, IF row_id = NoId THEN LenT(tbl) ELSE row_id),
        !.cols = [i \in 1..Len(@) |->
                     [@[i] EXCEPT !.data = Append(@, ValueAt(i, LenT(tbl)))]]]

\* missing_categories that stops at one missing category
missing_categories_one(payload) ==
    LET missing == Range(categories) \ DOMAIN payload.cats
    IN  IF missing = {} THEN {} ELSE {CHOOSE c \in missing : TRUE}

\* add_row: the categories with no sub-payload in the row data
missing_categories(payload) == Range(categories) \ DOMAIN payload.cats

\* RowsAdded with a rollback: a failing category undoes the earlier appends
RowsAddedAllOrNothing(stop) ==
    [i \in 1..Len(category_tables) |->
        IF stop > Len(category_tables)
        THEN dt_add_row(category_tables[i], NoId) ELSE category_tables[i]]

\* add_row: the category tables after the loop of lines 395-396 has run up to
\* (not including) position `stop`
RowsAdded(stop) ==
    [i \in 1..Len(category_tables) |->
        IF i < stop THEN dt_add_row(category_tables[i], NoId) ELSE category_tables[i]]

\* add_row: the first category (in the order of the categories) whose own
\* add_row raises, Len + 1 when none does
FirstFailing(payload) ==
    LET bad == {i \in 1..Len(category_tables) :
                    payload.cats[category_tables[i].name] # "good"}
    IN  IF bad = {} THEN Len(category_tables) + 1 ELSE Min(bad)

AddRowArgs(payload, row_id, enforce_unique_id) ==
    [payload |-> payload, id |-> row_id, enforce_unique_id |-> enforce_unique_id]

\* add_row(id=row_id, enforce_unique_id=..., <main values>, <category>={...});
\* payload.main says whether the remaining keys are exactly the main table's
\* columns, payload.cats maps the category names supplied to "good" (the keys
\* of the sub-payload are the category's columns) or "bad"
AddRowAligned(payload, row_id, enforce_unique_id) ==
    /\ constructed
    /\ LenT(main) < MaxRows
    /\ IF missing_categories(payload) # {}
       THEN /\ last' = Raised("add_row", AddRowArgs(payload, row_id, enforce_unique_id),
                              "ValueError",
                              "row data keys don't match available categories",
                              missing_categories(payload))
            /\ allOk' = FALSE
            /\ UNCHANGED <<main, category_tables>>
       ELSE LET mainKeysOk == payload.main = "good"
                                 /\ DOMAIN payload.cats \subseteq Range(categories)
                e == dt_add_row_error(main, mainKeysOk, row_id, enforce_unique_id)
                stop == FirstFailing(payload)
            IN  IF e # ""
                THEN /\ last' = Outcome("add_row",
                                        AddRowArgs(payload, row_id, enforce_unique_id), e, <<>>)
                     /\ allOk' = FALSE
                     /\ UNCHANGED <<main, category_tables>>
                ELSE /\ main' = dt_add_row(main, row_id)
                     /\ category_tables' = RowsAdded(stop)
                     /\ last' = Outcome("add_row",
                                        AddRowArgs(payload, row_id, enforce_unique_id),
                                        IF stop > Len(category_tables) THEN ""
                                        ELSE "row data keys don't match available columns",
                                        <<>>)
                     /\ allOk' = (allOk /\ stop > Len(category_tables))
    /\ UNCHANGED <<constructed>>
    /\ UNCHANGED <<hvars, nwb>>

----------------------------------------------------------------------------
(* AlignedDynamicTable.to_dataframe and __getitem__.                        *)
(* A pandas frame before concatenation is [labels, columns, rows]: the row  *)
(* labels (the index), the column names and one sequence of values per row. *)
(* A concatenated frame is [kind, index_name, columns, index, data] with    *)
(* columns keyed <<table name, column name>>.                               *)

NaN == -999    \* the value pandas fills in where a frame has no row for a label

\* DynamicTable.to_dataframe(): indexed by the table's ids
dt_to_dataframe(tbl) ==
    [labels |-> tbl.id,
     columns |-> [i \in 1..Len(tbl.cols) |-> tbl.cols[i].name],
     rows |-> [r \in 1..LenT(tbl) |->
                  [i \in 1..Len(tbl.cols) |-> tbl.cols[i].data[r]]]]

\* DataFrame.reset_index(): the index becomes the first column 'id' and the
\* rows are labelled by their position
reset_index(df) ==
    [labels |-> [r \in 1..Len(df.labels) |-> r - 1],
     columns |-> <<"id">> \o df.columns,
     rows |-> [r \in 1..Len(df.rows) |-> <<df.labels[r]>> \o df.rows[r]]]

\* the keys of __getitem__
IntKey(p) == [kind |-> "int", pos |-> p]

ListKey(ps) == [kind |-> "list", positions |-> ps]

ArrayKey(ps) == [kind |-> "array", positions |-> ps]

SliceKey(a, b) == [kind |-> "slice", start |-> a, stop |-> b]

StrKey(nm) == [kind |-> "str", name |-> nm]

NoneKey == [kind |-> "None"]

\* the tuple (None, column, row)
MainCellKey(cn, r) == [kind |-> "tuple", category |-> NoneName, column |-> cn, row |-> r]

IsPositional(item) == item.kind \in {"int", "list", "array", "slice"}

\* the 0-based row positions a positional key selects in a table of n rows,
\* in selection order; a slice is clipped to the table
KeyPositions(item, n) ==
    CASE item.kind = "int" -> <<item.pos>>
      [] item.kind \in {"list", "array"} -> item.positions
      [] item.kind = "slice" ->
            [k \in 1..(Min({item.stop, n}) - Min({item.start, n})) |->
                item.start + k - 1]

\* DynamicTable.__getitem__ raises IndexError for a position beyond the table
dt_getitem_error(tbl, item) ==
    IF item.kind # "slice"
       /\ \E k \in 1..Len(KeyPositions(item, LenT(tbl))) :
              KeyPositions(item, LenT(tbl))[k] >= LenT(tbl)
    THEN "index out of range"
    ELSE ""

\* DynamicTable.__getitem__(int | list | array | slice): the frame of the
\* selected rows, indexed by their ids
dt_getitem(tbl, item) ==
    LET ps == KeyPositions(item, LenT(tbl))
        df == dt_to_dataframe(tbl)
    IN  [labels |-> [k \in 1..Len(ps) |-> df.labels[ps[k] + 1]],
         columns |-> df.columns,
         rows |-> [k \in 1..Len(ps) |-> df.rows[ps[k] + 1]]]

\* the row of df labelled l, a row of NaN when df has no such label
RowAt(df, l) ==
    IF \E r \in 1..Len(df.labels) : df.labels[r] = l
    THEN df.rows[CHOOSE r \in 1..Len(df.labels) : df.labels[r] = l]
    ELSE [i \in 1..Len(df.columns) |-> NaN]

\* pd.concat(dfs, axis=1, keys=names): the frames side by side, aligned on
\* their row labels (outer join)
concat(dfs, names) ==
    LET labels == DistinctInOrder(Concat([i \in 1..Len(dfs) |-> dfs[i].labels]))
    IN  [labels |-> labels,
         columns |-> Concat([i \in 1..Len(dfs) |->
                        [c \in 1..Len(dfs[i].columns) |-> <<names[i], dfs[i].columns[c]>>]]),
         rows |-> [k \in 1..Len(labels) |->
                      Concat([i \in 1..Len(dfs) |-> RowAt(dfs[i], labels[k])])]]

\* res.set_index(key, drop=True): the column `key` becomes the index
set_index(df, key) ==
    LET at == CHOOSE c \in 1..Len(df.columns) : df.columns[c] = key
        Drop(sq) == SubSeq(sq, 1, at - 1) \o SubSeq(sq, at + 1, Len(sq))
    IN  [kind |-> "frame",
         index_name |-> key,
         columns |-> Drop(df.columns),
         index |-> [k \in 1..Len(df.rows) |-> df.rows[k][at]],
         data |-> [k \in 1..Len(df.rows) |-> Drop(df.rows[k])]]

\* names = [self.name] + list(self.category_tables.keys())
concat_names == <<main.name>> \o categories

\* AlignedDynamicTable.to_dataframe(ignore_category_ids=...)
to_dataframe(ignore_category_ids) ==
    set_index(
        concat(<<reset_index(dt_to_dataframe(main))>> \o
               [i \in 1..Len(category_tables) |->
                   IF ignore_category_ids
                   THEN dt_to_dataframe(category_tables[i])
                   ELSE reset_index(dt_to_dataframe(category_tables[i]))],
               concat_names),
        <<main.name, "id">>)

ToDataframe(ignore_category_ids) ==
    /\ constructed
    /\ last' = Returned("to_dataframe",
                        [ignore_category_ids |-> ignore_category_ids],
                        to_dataframe(ignore_category_ids))
    /\ UNCHANGED <<main, category_tables, constructed, allOk>>
    /\ UNCHANGED <<hvars, nwb>>

\* __getitem__ for a positional key, the selected rows taken in the reverse
\* of the selection order
getitem_rows_reversed(item) ==
    LET Rev(df) == [labels |-> [k \in 1..Len(df.labels) |-> df.labels[Len(df.labels) + 1 - k]],
                    columns |-> df.columns,
                    rows |-> [k \in 1..Len(df.rows) |-> df.rows[Len(df.rows) + 1 - k]]]
    IN  set_index(
            concat(<<reset_index(Rev(dt_getitem(main, item)))>> \o
                   [i \in 1..Len(category_tables) |->
                       reset_index(Rev(dt_getitem(category_tables[i], item)))],
                   concat_names),
            <<main.name, "id">>)

\* __getitem__ for a positional key: the selected rows of the main table and
\* of every category side by side
getitem_rows(item) ==
    set_index(
        concat(<<reset_index(dt_getitem(main, item))>> \o
               [i \in 1..Len(category_tables) |->
                   reset_index(dt_getitem(category_tables[i], item))],
               concat_names),
        <<main.name, "id">>)

\* __getitem__ for a positional key: the error of the first table that raises
getitem_rows_error(item) ==
    LET tbls == <<main>> \o category_tables
        bad == {i \in 1..Len(tbls) : dt_getitem_error(tbls[i], item) # ""}
    IN  IF bad = {} THEN "" ELSE dt_getitem_error(tbls[Min(bad)], item)

\* __getitem__(item). A string is looked up among the categories only; a
\* tuple is handed to get_category(item[0]), which rejects None (with the
\* argument check's TypeError or the lookup's KeyError); any other key falls
\* through the if/elif chain and the method returns None.
GetItem(item) ==
    /\ constructed
    /\ LET args == [item |-> item]
       IN  CASE IsPositional(item) ->
                    IF getitem_rows_error(item) # ""
                    THEN last' = Raised("__getitem__", args, "IndexError",
                                        getitem_rows_error(item), <<>>)
                    ELSE last' = Returned("__getitem__", args, getitem_rows(item))
             [] item.kind = "str" ->
                    IF item.name \in Range(categories)
                    THEN last' = Returned("__getitem__", args,
                                     [kind |-> "category",
                                      df |-> dt_to_dataframe(category_tables[CatIndex(item.name)])])
                    ELSE last' = Raised("__getitem__", args, "KeyError", item.name, <<>>)
             [] item.kind = "tuple" ->
                    \E exc \in {"TypeError", "KeyError"} :
                        last' = Raised("__getitem__", args, exc, "get_category(None)", <<>>)
             [] OTHER ->
                    last' = Returned("__getitem__", args, [kind |-> "None"])
    /\ UNCHANGED <<main, category_tables, constructed, allOk>>
    /\ UNCHANGED <<hvars, nwb>>

\* the keys tried: positions up to the bound (the last one beyond any table)
Positions == 0..(MaxRows - 1)

Keys ==
    {IntKey(p) : p \in 0..MaxRows}
    \cup {ListKey(ps) : ps \in SeqsUpTo(Positions, 2) \ {<<>>}}
    \cup {ArrayKey(ps) : ps \in [1..2 -> Positions]}
    \cup {SliceKey(a, b) : a \in 0..1, b \in 1..MaxRows}
    \cup {StrKey(nm) : nm \in {"x", "cat1"}}
    \cup {NoneKey}
    \cup {MainCellKey("x", 0)}

OptTables == {NotGiven} \cup {Given(s) : s \in SeqsUpTo(SideTables, 2)}

OptCategories == {NotGiven} \cup {Given(s) : s \in SeqsUpTo(CatNames \cup {"catx"}, 2)}

Payloads ==
    {[main |-> m, cats |-> c] :
        m \in {"good", "bad"},
        c \in UNION {[S -> {"good", "bad"}] : S \in SUBSET CatNames}}

Next ==
    \/ \E n0 \in 0..MaxRows, tbls \in OptTables, cats \in OptCategories :
            Construct(n0, tbls, cats)
    \/ \E category \in SideTables : AddCategory(category)
    \/ \E n \in 0..MaxRows, cn \in {"", "cat1", "cat2"} : AddColumn("x", n, cn)
    \/ \E payload \in Payloads, call \in {<<NoId, FALSE>>, <<7, FALSE>>, <<7, TRUE>>} :
            AddRowAligned(payload, call[1], call[2])

InitSpec ==
    /\ tabs = InitTabs("level1")
    /\ out = NoOut
    /\ InitAligned

Spec == InitSpec /\ [][Next]_vars

\* SpecView: an aligned group built and filled by calls that succeed, and
\* its views to_dataframe and __getitem__
GoodPayloads ==
    {[main |-> "good", cats |-> c] : c \in UNION {[S -> {"good"}] : S \in SUBSET CatNames}}

OptTablesView ==
    {NotGiven} \cup {Given(s) : s \in SeqsUpTo(SideTables \cup CustomIdTables, 2)}

NextView ==
    \/ \E n0 \in 0..MaxRows, tbls \in OptTablesView : Construct(n0, tbls, NotGiven)
    \/ \E n \in 0..MaxRows : AddColumn("x", n, "")
    \/ \E payload \in GoodPayloads, row_id \in {NoId, 7} :
            AddRowAligned(payload, row_id, FALSE)
    \/ \E ignore_category_ids \in BOOLEAN : ToDataframe(ignore_category_ids)
    \/ \E item \in Keys : GetItem(item)

SpecView == InitSpec /\ [][NextView]_vars

\* C1: after a successful construction and any sequence of successful
\* add_row, add_category and add_column calls, the main table and every
\* category table have the same number of rows.
C1_Alignment ==
    (constructed /\ allOk) =>
        \A i \in 1..Len(category_tables) : LenT(category_tables[i]) = LenT(main)

\* an aligned group with two categories after successful calls only, the last
\* one an add_row with an explicit id
C1_Witness ==
    /\ constructed /\ allOk
    /\ Len(category_tables) = 2
    /\ LenT(main) = MaxRows
    /\ last.op = "add_row" /\ last.err = ""
    /\ main.id[LenT(main)] = 7

\* a failed add_row leaves the group misaligned (the main table has the row)
MisalignedReachable ==
    /\ constructed
    /\ \E i \in 1..Len(category_tables) : LenT(category_tables[i]) # LenT(main)

----------------------------------------------------------------------------
(* Column-declaration facts used by the claims *)

RegionIdx(t) == {i \in 1..Len(tabs[t].cols) : tabs[t].cols[i].region}

HierIdx(t) == {i \in RegionIdx(t) : tabs[t].cols[i].table \in Hier}

\* C4: with several reference columns, none of them to a hierarchical table,
\* get_hierarchy_column_name() returns the first reference column in
\* declaration order; it returns None without any reference column.
C4_FirstReferenceColumn ==
    (out.op = "get_hierarchy_column_name" /\ HierIdx(out.t) = {}) =>
        out.val = (IF RegionIdx(out.t) = {} THEN NoneName
                   ELSE tabs[out.t].cols[Min(RegionIdx(out.t))].name)

\* What the loop does in that case: the last reference column wins.
C4_LastReferenceColumn ==
    (out.op = "get_hierarchy_column_name" /\ HierIdx(out.t) = {}) =>
        out.val = (IF RegionIdx(out.t) = {} THEN NoneName
                   ELSE tabs[out.t].cols[
                            CHOOSE i \in RegionIdx(out.t) :
                                \A j \in RegionIdx(out.t) : j <= i].name)

\* C5: whenever some reference column targets a hierarchical table,
\* get_hierarchy_column_name() returns the first such column in declaration
\* order, whatever other reference columns are declared before or after it.
C5_FirstHierarchicalColumn ==
    (out.op = "get_hierarchy_column_name" /\ HierIdx(out.t) # {}) =>
        out.val = tabs[out.t].cols[Min(HierIdx(out.t))].name

\* a non-hierarchical reference column is declared before the hierarchical
\* one and another one after it
C5_Witness ==
    /\ out.op = "get_hierarchy_column_name"
    /\ HierIdx(out.t) # {}
    /\ \E i, j \in RegionIdx(out.t) \ HierIdx(out.t) :
          i < Min(HierIdx(out.t)) /\ j > Min(HierIdx(out.t))
    /\ out.val = tabs[out.t].cols[Min(HierIdx(out.t))].name

\* C6: T0.get_targets() is exactly the chain [T1, ..., Tn] obtained by
\* following the hierarchy column, every Ti before the last hierarchical and
\* the last one the leaf (not hierarchical).
C6_TargetsAreTheChain ==
    (out.op = "get_targets" /\ ~out.flag) =>
        /\ Len(out.val) >= 1
        /\ out.val[1] = hcol_target(out.t)
        /\ \A i \in 1..(Len(out.val) - 1) :
              /\ out.val[i] \in Hier
              /\ out.val[i + 1] = hcol_target(out.val[i])
        /\ out.val[Len(out.val)] \notin Hier

\* a chain of two levels below T0, resolved through an added column
C6_Witness ==
    /\ out.op = "get_targets" /\ ~out.flag
    /\ out.t = "level2"
    /\ get_hierarchy_column_name("level2") # HCol
    /\ Len(out.val) = 2
    /\ out.val[1] = "level1"

\* C7: get_targets(include_self=True) is T followed by
\* get_targets(include_self=False), also when T's target is a leaf table.
C7_IncludeSelfPrepends ==
    (out.op = "get_targets" /\ out.flag) =>
        out.val = <<out.t>> \o get_targets(out.t, FALSE)

\* What the code does: self is prepended only when the target is hierarchical.
C7_IncludeSelfOnlyAboveHierarchicalTarget ==
    (out.op = "get_targets" /\ out.flag) =>
        out.val = (IF hcol_target(out.t) \in Hier THEN <<out.t>> ELSE <<>>)
                      \o get_targets(out.t, FALSE)

----------------------------------------------------------------------------
(* Flattening facts used by the claims *)

IsFlatten == out.op = "to_hierarchical_dataframe"

\* number of output rows contributed by the first r rows of t
Prefix(t, r) == SumSeq([i \in 1..r |-> Len(Groups(t)[i])])

\* the row of t (1-based) that output row k belongs to
RowOfOutput(t, k) ==
    CHOOSE r \in 1..NRows(t) : Prefix(t, r - 1) < k /\ k <= Prefix(t, r)

\* C2: for T -> X with X a leaf table, to_hierarchical_dataframe() on T has
\* sum over the rows r of T of len(group of r) rows, in the order of T's rows
\* and within a row in the order of its group; each of them carries the id of
\* its row of T as outer index value and the referenced row of X as data.
C2_RowCountLaw ==
    (IsFlatten /\ ~out.flag /\ hcol_target(out.t) \notin Hier) =>
        /\ out.val.err = ""
        /\ Len(out.val.data) = Prefix(out.t, NRows(out.t))
        /\ Len(out.val.index) = Len(out.val.data)
        /\ \A k \in 1..Len(out.val.data) :
              LET r == RowOfOutput(out.t, k)
                  p == Groups(out.t)[r][k - Prefix(out.t, r - 1)]
              IN  /\ out.val.index[k][1] = tabs[out.t].id[r]
                  /\ out.val.data[k][1] = tabs[hcol_target(out.t)].id[p + 1]

\* two rows with groups of different length, one group out of position order
C2_Witness ==
    /\ IsFlatten /\ ~out.flag /\ hcol_target(out.t) \notin Hier
    /\ NRows(out.t) = 2
    /\ \E r \in 1..2 : Groups(out.t)[r] = <<1, 0>>
    /\ \E r \in 1..2 : Len(Groups(out.t)[r]) < 2
    /\ Len(out.val.data) >= 2

\* the rows the claim C3 describes: for every row r of T in order and every
\* referenced row g of M in order, the rows of M's flattening whose outermost
\* index value is the id of g, keyed by T's id and other values at r followed
\* by the matched row's index tuple, the data unchanged
ComposedRows(t, mflat) ==
    LET m == hcol_target(t)
        Matching(g) == SelectSeq([k \in 1..Len(mflat.index) |-> k],
                                 LAMBDA k : mflat.index[k][1] = tabs[m].id[g + 1])
        OfGroupEntry(r, g) ==
            [i \in 1..Len(Matching(g)) |->
                [index |-> <<tabs[t].id[r]>>
                              \o [c \in 1..Len(OtherCols(t)) |-> OtherCols(t)[c].data[r]]
                              \o mflat.index[Matching(g)[i]],
                 data |-> mflat.data[Matching(g)[i]]]]
    IN  Concat([r \in 1..NRows(t) |->
            Concat([j \in 1..Len(Groups(t)[r]) |-> OfGroupEntry(r, Groups(t)[r][j])])])

ThreeLevels(t) ==
    /\ hcol_target(t) \in Hier
    /\ hcol_target(hcol_target(t)) \notin Hier

IsComposition(f, t, mflat) ==
    /\ f.err = ""
    /\ f.columns = mflat.columns
    /\ Len(f.index) = Len(ComposedRows(t, mflat))
    /\ Len(f.data) = Len(ComposedRows(t, mflat))
    /\ \A k \in 1..Len(ComposedRows(t, mflat)) :
          /\ f.index[k] = ComposedRows(t, mflat)[k].index
          /\ f.data[k] = ComposedRows(t, mflat)[k].data

\* C3: for T -> M -> X, T.to_hierarchical_dataframe() is the composition of
\* M.to_hierarchical_dataframe() with T's rows and row groups.
C3_RecursiveComposition ==
    (IsFlatten /\ ~out.flag /\ ThreeLevels(out.t)) =>
        IsComposition(out.val, out.t,
                      to_hierarchical_dataframe(hcol_target(out.t), FALSE))

\* What the code does: the composition whenever the call returns; it raises a
\* KeyError exactly when a referenced row of M has no row in M's flattening.
C3_CompositionWhenReturned ==
    (IsFlatten /\ ~out.flag /\ ThreeLevels(out.t)) =>
        LET m == hcol_target(out.t)
            mflat == to_hierarchical_dataframe(m, FALSE)
            unmatched ==
                \E r \in 1..NRows(out.t) : \E j \in 1..Len(Groups(out.t)[r]) :
                    \A k \in 1..Len(mflat.index) :
                        mflat.index[k][1] # tabs[m].id[Groups(out.t)[r][j] + 1]
        IN  /\ (out.val.err = "KeyError") <=> unmatched
            /\ out.val.err \in {"", "KeyError"}
            /\ out.val.err = "" => IsComposition(out.val, out.t, mflat)

\* a returned three-level flattening in which M fans out and ids of M repeat
C3_ReturnedWitness ==
    /\ IsFlatten /\ ~out.flag /\ ThreeLevels(out.t)
    /\ out.val.err = ""
    /\ Len(out.val.data) >= 2

\* the labels the chain below t determines
RECURSIVE ChainIndexNames(_)
ChainIndexNames(t) ==
    LevelNames(t) \o
    (IF hcol_target(t) \in Hier THEN ChainIndexNames(hcol_target(t)) ELSE <<>>)

LeafOf(t) == get_targets(t, FALSE)[Len(get_targets(t, FALSE))]

ChainColumns(t, flat) ==
    <<<<LeafOf(t), "id">>>> \o
    [i \in 1..Len(colnames(LeafOf(t))) |->
        IF flat THEN <<colnames(LeafOf(t))[i]>>
        ELSE <<LeafOf(t), colnames(LeafOf(t))[i]>>]

C8_WitnessLeaf ==
    /\ IsFlatten /\ ~out.flag
    /\ NRows(out.t) = 0
    /\ hcol_target(out.t) \notin Hier
    /\ Len(OtherCols(out.t)) >= 1
    /\ out.val.err = ""

\* C9: to_hierarchical_dataframe(flat_column_index=True) on a table with zero
\* rows and a leaf target returns a zero-row frame with the columns
\* (target name, 'id') followed by the target's columns.
C9_EmptyFlatReturns ==
    (IsFlatten /\ out.flag /\ NRows(out.t) = 0 /\ hcol_target(out.t) \notin Hier) =>
        /\ out.val.err = ""
        /\ out.val.data = <<>>
        /\ out.val.columns =
              <<<<hcol_target(out.t), "id">>>> \o
              [i \in 1..Len(colnames(hcol_target(out.t))) |->
                  <<colnames(hcol_target(out.t))[i]>>]

\* What the code does there: the read of the unbound loop variable raises.
C9_EmptyFlatRaises ==
    (IsFlatten /\ out.flag /\ NRows(out.t) = 0 /\ hcol_target(out.t) \notin Hier) =>
        out.val.err = "UnboundLocalError"

\* C10: the index level names are, top-down over the non-leaf tables of the
\* chain, (Ti.name, 'id') and (Ti.name, c) for the other columns of Ti in
\* declaration order; the data columns are (Tn.name, 'id') and the leaf's
\* columns, labelled with the leaf's name unless flat_column_index.
C10_LabelsOfTheChain ==
    IsFlatten =>
        /\ out.val.err = ""
        /\ out.val.index_names = ChainIndexNames(out.t)
        /\ out.val.columns = ChainColumns(out.t, out.flag)

\* What the code does: these labels whenever the call returns a frame.
C10_LabelsWhenReturned ==
    (IsFlatten /\ out.val.err = "") =>
        /\ out.val.index_names = ChainIndexNames(out.t)
        /\ out.val.columns = ChainColumns(out.t, out.flag)

----------------------------------------------------------------------------
(* Denormalized labels *)

IsDenormalize == out.op = "to_denormalized_dataframe"

\* C11: in to_denormalized_dataframe(flat_column_index=False) every column
\* is labelled (source_table, label) with source_table the name of a table of
\* the chain and label the column's name in that table: the index levels of
\* the chain first, then the leaf's id and the leaf's columns, which are
\* attributed to the deepest table of the chain.
C11_SourceTableLabels ==
    (IsDenormalize /\ ~out.flag /\ out.val.err = "") =>
        out.val.columns = ChainIndexNames(out.t) \o ChainColumns(out.t, FALSE)

\* What the code does: a column of the leaf keeps its plain name in the
\* flattening and is then split by character, the first character becoming
\* the source_table.
C11_PlainNamesSplitByCharacter ==
    (IsDenormalize /\ ~out.flag /\ out.val.err = "") =>
        out.val.columns =
            ChainIndexNames(out.t) \o <<<<LeafOf(out.t), "id">>>> \o
            [i \in 1..Len(colnames(LeafOf(out.t))) |->
                <<Chars(colnames(LeafOf(out.t))[i])[1],
                  Chars(colnames(LeafOf(out.t))[i])[2]>>]

\* a denormalized frame with rows whose leaf has a column
C11_SplitReachable ==
    /\ IsDenormalize /\ ~out.flag /\ out.val.err = ""
    /\ Len(out.val.data) >= 1
    /\ Len(colnames(LeafOf(out.t))) >= 1

----------------------------------------------------------------------------
(* The aligned group: errors, routing and order *)

IsAddRow == last.op = "add_row"

\* the categories for which the payload of the last add_row had no entry
NotSupplied(call) == Range(categories) \ DOMAIN call.args.payload.cats

\* C12: add_row with a payload that lacks the sub-payload of one or more
\* categories raises an error that lists every missing category name, and
\* neither the main table nor any category table gains a row.
C12_MissingCategoriesRejected ==
    [][(last'.op = "add_row" /\ NotSupplied(last') # {}) =>
            /\ last'.exc # ""
            /\ last'.err = "row data keys don't match available categories"
            /\ last'.val = NotSupplied(last')
            /\ main' = main
            /\ category_tables' = category_tables]_vars

\* an add_row on a group with rows that supplied neither of two categories
C12_Witness ==
    /\ IsAddRow
    /\ last.err = "row data keys don't match available categories"
    /\ last.val = {"cat1", "cat2"}
    /\ LenT(main) >= 1

\* C13: add_row with the main-table values but without the data of a
\* category raises a KeyError whose message contains "row data keys don't
\* match".
C13_MissingCategoryIsKeyError ==
    (IsAddRow /\ last.args.payload.main = "good" /\ NotSupplied(last) # {}) =>
        /\ last.exc = "KeyError"
        /\ last.err \in {"row data keys don't match available categories",
                          "row data keys don't match available columns"}

\* What the code does: it raises a ValueError with that message.
C13_MissingCategoryIsValueError ==
    (IsAddRow /\ last.args.payload.main = "good" /\ NotSupplied(last) # {}) =>
        /\ last.exc = "ValueError"
        /\ last.err = "row data keys don't match available categories"

\* C14: add_category with a table whose row count differs from the main
\* table's row count raises an error that reports the table's row count as
\* the actual and the main table's as the expected one, and the categories
\* are left unchanged.
C14_MisalignedCategoryRejected ==
    [][(last'.op = "add_category" /\ LenT(last'.args.category) # LenT(main)) =>
            /\ last'.exc = "ValueError"
            /\ last'.err = "New category DynamicTable does not align"
            /\ last'.val = [has |-> LenT(last'.args.category), expected |-> LenT(main)]
            /\ category_tables' = category_tables
            /\ main' = main]_vars

\* a table with fewer rows than the main table, offered to a group that has
\* a category
C14_Witness ==
    /\ last.op = "add_category"
    /\ last.err = "New category DynamicTable does not align"
    /\ last.val.has < last.val.expected
    /\ last.val.has >= 1
    /\ Len(category_tables) >= 1

DuplicateNames(tbls) ==
    \E i, j \in 1..Len(tbls) : i # j /\ tbls[i].name = tbls[j].name

\* C15: the category names are pairwise distinct in every reachable state;
\* construction with two side tables of the same name fails; add_category
\* with the name of an existing category fails and leaves the existing
\* category table in place.
C15_DistinctCategoryNames ==
    /\ [](~DuplicateNames(category_tables))
    /\ []((last.op = "__init__" /\ last.args.category_tables.given
              /\ DuplicateNames(last.args.category_tables.val)) =>
            (last.exc = "ValueError" /\ ~constructed))
    /\ [][(last'.op \in {"add_category"}
              /\ last'.args.category.name \in Range(categories)) =>
                /\ last'.exc = "ValueError"
                /\ category_tables' = category_tables]_vars

\* a table of the right length refused for its name
C15_Witness ==
    /\ last.op = "add_category"
    /\ last.err = "already in the table"
    /\ LenT(last.args.category) = LenT(main)
    /\ Len(category_tables) = 2

ColNamesSeq(tbl) == [i \in 1..Len(tbl.cols) |-> tbl.cols[i].name]

\* C16: add_column adds the column to the main table when category is None
\* and to exactly the named category table otherwise, the columns of every
\* other table unchanged; with a name that is not a category it raises
\* KeyError("Category <name> not in table") and no table gains a column.
C16_AddColumnRouting ==
    [][last'.op = "add_column" =>
        LET a == last'.args
        IN  IF a.category # "" /\ a.category \notin Range(categories)
            THEN /\ last'.exc = "KeyError"
                 /\ last'.err = "Category not in table"
                 /\ main' = main
                 /\ category_tables' = category_tables
            ELSE IF last'.exc # ""
            THEN main' = main /\ category_tables' = category_tables
            ELSE IF a.category = ""
            THEN /\ ColNamesSeq(main') = Append(ColNamesSeq(main), a.name)
                 /\ category_tables' = category_tables
            ELSE /\ main' = main
                 /\ Len(category_tables') = Len(category_tables)
                 /\ \A i \in 1..Len(category_tables) :
                       IF category_tables[i].name = a.category
                       THEN ColNamesSeq(category_tables'[i]) =
                                Append(ColNamesSeq(category_tables[i]), a.name)
                       ELSE category_tables'[i] = category_tables[i]]_vars

\* a column added to the second of two categories
C16_Witness ==
    /\ last.op = "add_column" /\ last.exc = ""
    /\ Len(category_tables) = 2
    /\ last.args.category = category_tables[2].name
    /\ LenT(main) >= 1
    /\ "x" \in TColNames(category_tables[2])
    /\ "x" \notin TColNames(category_tables[1])
    /\ "x" \notin TColNames(main)

\* an add_column with the name of no category
C16_WitnessUnknownCategory ==
    /\ last.op = "add_column" /\ last.exc = "KeyError"
    /\ Len(category_tables) = 1

\* C20: after construction `categories` is the `categories` argument when it
\* is given and the names of `category_tables` in their order otherwise; each
\* successful add_category appends its table at the end and keeps the
\* existing ones in order.
C20_CategoriesOrder ==
    /\ []((last.op = "__init__" /\ last.exc = "") =>
            categories =
                (IF last.args.categories.given THEN last.args.categories.val
                 ELSE IF last.args.category_tables.given
                      THEN [i \in 1..Len(last.args.category_tables.val) |->
                               last.args.category_tables.val[i].name]
                      ELSE <<>>))
    /\ [][(last'.op = "add_category" /\ last'.exc = "") =>
                category_tables' = Append(category_tables, last'.args.category)]_vars

\* the tables given in the order cat1, cat2 and categories = [cat2, cat1]
C20_Witness ==
    /\ last.op = "__init__" /\ last.exc = ""
    /\ last.args.categories.given
    /\ last.args.categories.val = <<"cat2", "cat1">>
    /\ last.args.category_tables.val[1].name = "cat1"
    /\ categories = <<"cat2", "cat1">>

\* a category appended to a group that has one
C20_WitnessAppend ==
    /\ last.op = "add_category" /\ last.exc = ""
    /\ Len(category_tables) = 2

----------------------------------------------------------------------------
(* The views of the aligned group *)

IsGetItem == last.op = "__getitem__"

\* the values of a table at the 0-based row position p
ValuesAt(tbl, p) == [i \in 1..Len(tbl.cols) |-> tbl.cols[i].data[p + 1]]

\* the columns (table name, column name) of one table, 'id' first if wanted
KeyedColumns(tbl, with_id) ==
    (IF with_id THEN <<<<tbl.name, "id">>>> ELSE <<>>) \o
    [i \in 1..Len(tbl.cols) |-> <<tbl.name, tbl.cols[i].name>>]

\* the row of the group at position p: the main table's values, then every
\* category's id (if wanted) and values in the order of the categories
GroupRowAt(p, with_ids) ==
    ValuesAt(main, p) \o
    Concat([i \in 1..Len(category_tables) |->
        (IF with_ids THEN <<category_tables[i].id[p + 1]>> ELSE <<>>) \o
        ValuesAt(category_tables[i], p)])

GroupColumns(with_ids) ==
    KeyedColumns(main, FALSE) \o
    Concat([i \in 1..Len(category_tables) |-> KeyedColumns(category_tables[i], with_ids)])

\* the frame of the rows of the group at the positions ps
GroupFrame(ps, with_ids) ==
    [kind |-> "frame",
     index_name |-> <<main.name, "id">>,
     columns |-> GroupColumns(with_ids),
     index |-> [k \in 1..Len(ps) |-> main.id[ps[k] + 1]],
     data |-> [k \in 1..Len(ps) |-> GroupRowAt(ps[k], with_ids)]]

\* every position the key selects exists in every table of the group
SelectsExistingRows(item) ==
    \A k \in 1..Len(KeyPositions(item, LenT(main))) :
        /\ KeyPositions(item, LenT(main))[k] < LenT(main)
        /\ \A i \in 1..Len(category_tables) :
              KeyPositions(item, LenT(main))[k] < LenT(category_tables[i])

\* C17: for an integer, list, slice or array key, __getitem__ returns one row
\* per selected row position, in selection order, holding the main table's
\* values at that position and every category's id and values at the same
\* position, the categories in declaration order, indexed by the main
\* table's id.
C17_RowProjection ==
    (IsGetItem /\ IsPositional(last.args.item) /\ SelectsExistingRows(last.args.item)) =>
        /\ last.exc = ""
        /\ last.val = GroupFrame(KeyPositions(last.args.item, LenT(main)), TRUE)

\* the rows 1 and 0, in that order, of a group with two categories whose ids
\* are not the main table's
C17_Witness ==
    /\ IsGetItem /\ last.exc = ""
    /\ last.args.item \in {ListKey(<<1, 0>>), ArrayKey(<<1, 0>>)}
    /\ Len(category_tables) = 2
    /\ Len(main.cols) = 1
    /\ main.id[2] = 7
    /\ category_tables[1].id[1] = 10
    /\ Len(last.val.data) = 2

\* a slice that reaches beyond the table
C17_WitnessSlice ==
    /\ IsGetItem /\ last.exc = ""
    /\ last.args.item = SliceKey(1, MaxRows)
    /\ LenT(main) = 1 /\ Len(category_tables) >= 1
    /\ last.val.data = <<>>

\* C18: __getitem__ also addresses the main table: a string key that names a
\* main-table column returns that column's data, the key None returns the
\* frame of to_dataframe(), and the key (None, column, row) returns the
\* main-table cell.
C18_AddressesMainTable ==
    IsGetItem =>
        LET item == last.args.item
        IN  /\ (item.kind = "str" /\ item.name \in TColNames(main)) =>
                    /\ last.exc = ""
                    /\ last.val = [kind |-> "column",
                                   data |-> (CHOOSE c \in Range(main.cols) :
                                                c.name = item.name).data]
            /\ item.kind = "None" =>
                    /\ last.exc = ""
                    /\ last.val = to_dataframe(FALSE)
            /\ (item.kind = "tuple" /\ item.column \in TColNames(main)
                   /\ item.row < LenT(main)) =>
                    /\ last.exc = ""
                    /\ last.val = [kind |-> "cell",
                                   value |-> (CHOOSE c \in Range(main.cols) :
                                                 c.name = item.column).data[item.row + 1]]

\* What the code does: a string is looked up among the categories only, None
\* falls through to an implicit `return None`, a tuple starting with None
\* raises.
C18_MainTableNotAddressed ==
    IsGetItem =>
        LET item == last.args.item
        IN  /\ (item.kind = "str" /\ item.name \notin Range(categories)) =>
                    last.exc = "KeyError"
            /\ item.kind = "None" => last.val = [kind |-> "None"]
            /\ item.kind = "tuple" => last.exc \in {"TypeError", "KeyError"}

\* a string key naming a column the main table has
C18_MainColumnAsked ==
    /\ IsGetItem
    /\ last.args.item = StrKey("x")
    /\ "x" \in TColNames(main)
    /\ LenT(main) >= 1

\* C19: to_dataframe() returns one row per main-table row, indexed by the
\* main table's id under the name (group name, 'id'), with the columns
\* (table name, column name): the main table's columns, then per category in
\* declaration order its 'id' and its columns; with ignore_category_ids=True
\* the categories' 'id' columns are absent and everything else is the same.
C19_ToDataframe ==
    last.op = "to_dataframe" =>
        last.val = GroupFrame([r \in 1..LenT(main) |-> r - 1],
                              ~last.args.ignore_category_ids)

\* the ids of every category are the row positions 0, 1, ...
CategoryIdsArePositions ==
    \A i \in 1..Len(category_tables) :
        category_tables[i].id = [r \in 1..LenT(category_tables[i]) |-> r - 1]

\* What the code does: with ignore_category_ids=True the categories are
\* joined on their own ids against the main table's row positions, so the
\* frame is the claimed one only when those ids are the positions.
C19_ToDataframeJoinsOnCategoryIds ==
    (last.op = "to_dataframe"
        /\ (last.args.ignore_category_ids => CategoryIdsArePositions)) =>
        last.val = GroupFrame([r \in 1..LenT(main) |-> r - 1],
                              ~last.args.ignore_category_ids)

\* ignore_category_ids=True on a group with a category of ids 10, 11: the
\* frame has a row per main position and a row per category id
C19_ExtraRowsReachable ==
    /\ last.op = "to_dataframe" /\ last.args.ignore_category_ids
    /\ LenT(main) = 2 /\ Len(category_tables) >= 1
    /\ Len(last.val.data) = 4
    /\ last.val.index[4] = NaN

----------------------------------------------------------------------------
(* The aligned group: what a failing add_row leaves behind, and the ids *)

\* the categories at or after the first one whose sub-payload the last
\* add_row call could not append
Rejecting(call, i) ==
    \E j \in 1..i : call.args.payload.cats[category_tables[j].name] # "good"

\* C25: add_row appends to the main table first and then to each category
\* in declaration order, with no rollback: when the append to a category
\* fails, the main table and every category before it have the new row, that
\* category and the ones after it do not.
C25_NoRollback ==
    [][(last'.op = "add_row" /\ NotSupplied(last') = {} /\ main' # main) =>
            /\ LenT(main') = LenT(main) + 1
            /\ Len(category_tables') = Len(category_tables)
            /\ \A i \in 1..Len(category_tables) :
                    LenT(category_tables'[i]) =
                        IF Rejecting(last', i) THEN LenT(category_tables[i])
                        ELSE LenT(category_tables[i]) + 1
            /\ (last'.err # "" <=> Rejecting(last', Len(category_tables)))]_vars

\* an add_row whose second category rejected its sub-payload: the main table
\* and the first category have the row, the second category does not
C25_Witness ==
    /\ IsAddRow /\ last.err = "row data keys don't match available columns"
    /\ Len(category_tables) = 2
    /\ LenT(main) = 1
    /\ LenT(category_tables[1]) = 1
    /\ LenT(category_tables[2]) = 0

\* C29: after any sequence of add_row calls (explicit ids included), the id
\* of every category at each row position equals the main table's id there.
C29_CategoryIdsEqualMainIds ==
    (constructed /\ allOk /\ IsAddRow) =>
        \A i \in 1..Len(category_tables) :
            \A r \in 1..LenT(main) : category_tables[i].id[r] = main.id[r]

\* What the code does: the id goes to the main table only; every category
\* numbers its own rows by position.
C29_CategoryIdsArePositions ==
    (constructed /\ allOk /\ IsAddRow /\ LenT(main) = 1
        /\ last.args.id # NoId /\ Len(category_tables) >= 1) =>
        /\ main.id = <<last.args.id>>
        /\ \A i \in 1..Len(category_tables) : category_tables[i].id = <<0>>

----------------------------------------------------------------------------
(* Flattening three levels over a row of M with an empty row group *)

\* the rows of M = hcol_target(t) that the rows of t reference, in order
ReferencedRows(t) == Concat(Groups(t))

\* every referenced row exists, in t and in M
ReferencesExist(t) ==
    /\ \A k \in 1..Len(ReferencedRows(t)) : ReferencedRows(t)[k] < NRows(hcol_target(t))
    /\ \A k \in 1..Len(ReferencedRows(hcol_target(t))) :
            ReferencedRows(hcol_target(t))[k] < NRows(hcol_target(hcol_target(t)))

\* t references a row of M whose row group is empty
ReferencesEmptyGroup(t) ==
    \E k \in 1..Len(ReferencedRows(t)) :
        Groups(hcol_target(t))[ReferencedRows(t)[k] + 1] = <<>>

\* C28: for T -> M -> X in which every referenced row exists,
\* T.to_hierarchical_dataframe() completes without a lookup failure also
\* when a row of M that T references has an empty row group, and such a row
\* contributes zero output rows.
C28_EmptyGroupContributesNothing ==
    (IsFlatten /\ ~out.flag /\ ThreeLevels(out.t) /\ ReferencesExist(out.t)
        /\ ReferencesEmptyGroup(out.t)) =>
        /\ out.val.err = ""
        /\ Len(out.val.data) =
              SumSeq([k \in 1..Len(ReferencedRows(out.t)) |->
                        Len(Groups(hcol_target(out.t))[ReferencedRows(out.t)[k] + 1])])

\* What the code does: the lookup of the id of such a row in M's flattening
\* raises a KeyError, unless another row of M with the same id has entries.
C28_EmptyGroupRaisesKeyError ==
    (IsFlatten /\ ~out.flag /\ ThreeLevels(out.t) /\ ReferencesExist(out.t)
        /\ ReferencesEmptyGroup(out.t)) =>
        LET m == hcol_target(out.t)
            SameId(g) == {r \in 1..NRows(m) : tabs[m].id[r] = tabs[m].id[g + 1]}
        IN  out.val.err = "KeyError" <=>
                \E k \in 1..Len(ReferencedRows(out.t)) :
                    \A r \in SameId(ReferencedRows(out.t)[k]) : Groups(m)[r] = <<>>

----------------------------------------------------------------------------
(* IntracellularRecordingsTable: an AlignedDynamicTable with the required   *)
(* categories electrodes, stimuli and responses. Its rows live in main and  *)
(* category_tables; a category table carries its class in `type`. A cell of *)
(* the stimulus or response column is <<start, count, series name>>.        *)

NumSamples == 5    \* data=[1, 2, 3, 4, 5]: num_samples of every test series

NoSeries == [name |-> "None", neurodata_type |-> "None", num_samples |-> 0, electrode |-> ""]

PatchClampSeries(name, neurodata_type, electrode) ==
    [name |-> name, neurodata_type |-> neurodata_type, num_samples |-> NumSamples,
     electrode |-> electrode]

\* the series of the tests
self_stimulus == PatchClampSeries("ccss", "VoltageClampStimulusSeries", "elec0")

self_response == PatchClampSeries("vcs", "VoltageClampSeries", "elec0")

\* test_add_row_incompatible_types
current_stimulus == PatchClampSeries("ccss_15", "CurrentClampStimulusSeries", "elec0")

\* test_inconsistent_PatchClampSeries
other_electrode_stimulus == PatchClampSeries("ccss_elec1", "VoltageClampStimulusSeries", "elec1")

\* test_warn_if_IZeroClampSeries_with_stimulus
local_response == PatchClampSeries("izcs", "IZeroClampSeries", "elec0")

IntracellularElectrodesTable ==
    [name |-> "electrodes", id |-> <<>>, cols |-> <<DataCol("electrode", <<>>)>>,
     type |-> "IntracellularElectrodesTable"]

IntracellularStimuliTable ==
    [name |-> "stimuli", id |-> <<>>, cols |-> <<DataCol("stimulus", <<>>)>>,
     type |-> "IntracellularStimuliTable"]

IntracellularResponsesTable ==
    [name |-> "responses", id |-> <<>>, cols |-> <<DataCol("response", <<>>)>>,
     type |-> "IntracellularResponsesTable"]

\* the class IntracellularResponsesTable itself, not an instance of it: its
\* .name is the property object of the class and it has no len()
IntracellularResponsesTableClass ==
    [name |-> "<property name>", id |-> <<>>, cols |-> <<>>, type |-> "type"]

RequiredTypes ==
    <<"IntracellularElectrodesTable", "IntracellularStimuliTable",
      "IntracellularResponsesTable">>

TypeOf(tbl) == IF "type" \in DOMAIN tbl THEN tbl.type ELSE "DynamicTable"

\* __init__: for each required type the 0-based position of the last table
\* of that type in category_tables, -1 when there is none
required_dynamic_table_given(tbls) ==
    [k \in 1..3 |->
        LET at == {i \in 1..Len(tbls) : TypeOf(tbls[i]) = RequiredTypes[k]}
        IN  IF at = {} THEN -1 ELSE (CHOOSE i \in at : \A j \in at : j <= i) - 1]

required_dynamic_table_missing(tbls) ==
    \E k \in 1..3 : required_dynamic_table_given(tbls)[k] < 0

\* categories_arg.insert(0, name) unless the name is in it
InsertFirst(categories_arg, name) ==
    IF name \in Range(categories_arg) THEN categories_arg ELSE <<name>> \o categories_arg

\* __init__: category_tables and categories as handed to
\* AlignedDynamicTable.__init__
IRInitArgs(in_category_tables, in_categories) ==
    IF ~in_category_tables.given \/ Len(in_category_tables.val) = 0
    THEN [category_tables |-> Given(<<IntracellularElectrodesTable,
                                      IntracellularStimuliTable,
                                      IntracellularResponsesTable>>),
          categories |-> NotGiven]
    ELSE LET tbls == in_category_tables.val
             given == required_dynamic_table_given(tbls)
             t1 == IF given[3] < 0 THEN Append(tbls, IntracellularResponsesTableClass)
                   ELSE tbls
             t2 == IF given[2] < 0 THEN Append(t1, IntracellularStimuliTable) ELSE t1
             t3 == IF given[1] < 0 THEN Append(t2, IntracellularElectrodesTable) ELSE t2
             c0 == IF in_categories.given THEN in_categories.val ELSE <<>>
             c1 == IF given[3] < 0
                   THEN InsertFirst(c0, IntracellularResponsesTableClass.name) ELSE c0
             c2 == IF given[2] < 0 THEN InsertFirst(c1, "stimuli") ELSE c1
             c3 == IF given[1] < 0 THEN InsertFirst(c2, "electrodes") ELSE c2
         IN  [category_tables |-> Given(t3), categories |-> Given(c3)]

\* __init__: the exception raised, as [exc, err]; both "" when the
\* construction succeeds
IRInitError(in_category_tables, in_categories) ==
    LET args == IRInitArgs(in_category_tables, in_categories)
        e == InitError(0, args.category_tables, args.categories)
        order == InitCategoryTables(args.category_tables, args.categories)
        m == InitMain(0, args.category_tables)
        bad == {k \in 1..Len(order) :
                    TypeOf(order[k]) = "type" \/ LenT(order[k]) # LenT(m)}
    IN  IF in_category_tables.given /\ Len(in_category_tables.val) > 0
           /\ LenT(in_category_tables.val[1]) # 0
           /\ required_dynamic_table_missing(in_category_tables.val)
        THEN [exc |-> "ValueError",
              err |-> "required when adding custom, non-empty tables"]
        ELSE IF e \notin {"", "does not align"}
        THEN [exc |-> "ValueError", err |-> e]
        ELSE IF bad = {} THEN [exc |-> "", err |-> ""]
        ELSE IF TypeOf(order[Min(bad)]) = "type"
        THEN [exc |-> "TypeError", err |-> "object of type 'type' has no len()"]
        ELSE [exc |-> "ValueError", err |-> "does not align"]

\* the main table of a constructed IntracellularRecordingsTable
IRInitMain(in_category_tables, in_categories) ==
    [InitMain(0, IRInitArgs(in_category_tables, in_categories).category_tables)
        EXCEPT !.name = "intracellular_recordings"]

\* the category tables of a constructed IntracellularRecordingsTable
IRInitCategoryTables(in_category_tables, in_categories) ==
    LET args == IRInitArgs(in_category_tables, in_categories)
    IN  InitCategoryTables(args.category_tables, args.categories)

\* IntracellularRecordingsTable(category_tables=..., categories=...): one
\* constructor call per behaviour; a call that raises yields no object
IRConstruct(in_category_tables, in_categories) ==
    /\ ~constructed /\ last.op = "none"
    /\ LET e == IRInitError(in_category_tables, in_categories)
           args == [category_tables |-> in_category_tables,
                    categories |-> in_categories]
       IN  /\ last' = Raised("IntracellularRecordingsTable", args, e.exc, e.err, <<>>)
           /\ IF e.exc = ""
              THEN /\ constructed' = TRUE
                   /\ main' = IRInitMain(in_category_tables, in_categories)
                   /\ category_tables' =
                          IRInitCategoryTables(in_category_tables, in_categories)
              ELSE UNCHANGED <<constructed, main, category_tables>>
    /\ UNCHANGED <<allOk, nwb>>
    /\ UNCHANGED hvars

\* add_recording(stimulus=..., stimulus_start_index=..., ..., id=..., **kwargs);
\* custom is the set of the further category names for which kwargs holds a
\* sub-payload (with the keys of that category's columns)
RecordingArgs(stim, stim_idx, resp, resp_idx, row_id, custom) ==
    [stimulus |-> stim, stimulus_start_index |-> stim_idx[1],
     stimulus_index_count |-> stim_idx[2],
     response |-> resp, response_start_index |-> resp_idx[1],
     response_index_count |-> resp_idx[2],
     electrode |-> "elec0", id |-> row_id, custom |-> custom]

\* lines 624-628 and 637-641: start and count of a series that is given
StartIndex(start) == IF start >= 0 THEN start ELSE 0

IndexCount(series, start, count) ==
    IF count >= 0 THEN count ELSE series.num_samples - StartIndex(start)

\* lines 631-635: the range check of the stimulus
stimulus_index_error(a) ==
    LET start == StartIndex(a.stimulus_start_index)
        count == IndexCount(a.stimulus, a.stimulus_start_index, a.stimulus_index_count)
    IN  IF start >= a.stimulus.num_samples
        THEN "stimulus_start_index out of range"
        ELSE IF start + count > a.stimulus.num_samples
        THEN "stimulus_start_index+stimulus_index_count out of range"
        ELSE ""

\* lines 644-648: the range check of the response
response_index_error(a) ==
    LET start == StartIndex(a.response_start_index)
        count == IndexCount(a.response, a.response_start_index, a.response_index_count)
    IN  IF start > a.response.num_samples
        THEN "response_start_index out of range"
        ELSE IF start + count > a.response.num_samples
        THEN "response_start_index+response_index_count out of range"
        ELSE ""

\* lines 651-652: response and stimulus after each None is replaced
ResponseOrStimulus(a) == IF a.response # NoSeries THEN a.response ELSE a.stimulus

StimulusOrResponse(a) == IF a.stimulus # NoSeries THEN a.stimulus ELSE ResponseOrStimulus(a)

StartsWith(neurodata_type, prefix) ==
    CASE prefix = "CurrentClamp" ->
            neurodata_type \in {"CurrentClampSeries", "CurrentClampStimulusSeries"}
      [] prefix = "VoltageClamp" ->
            neurodata_type \in {"VoltageClampSeries", "VoltageClampStimulusSeries"}

\* lines 619-673: the exception add_recording raises before it builds the
\* row, as [exc, err]
recording_error(a) ==
    LET r == ResponseOrStimulus(a)
        st == StimulusOrResponse(a)
    IN  IF a.stimulus = NoSeries /\ a.response = NoSeries
        THEN [exc |-> "ValueError", err |-> "stimulus and response cannot both be None."]
        ELSE IF a.stimulus # NoSeries /\ stimulus_index_error(a) # ""
        THEN [exc |-> "IndexError", err |-> stimulus_index_error(a)]
        ELSE IF a.response # NoSeries /\ response_index_error(a) # ""
        THEN [exc |-> "IndexError", err |-> response_index_error(a)]
        ELSE IF \/ StartsWith(r.neurodata_type, "CurrentClamp")
                     /\ StartsWith(st.neurodata_type, "VoltageClamp")
                \/ StartsWith(r.neurodata_type, "VoltageClamp")
                     /\ StartsWith(st.neurodata_type, "CurrentClamp")
        THEN [exc |-> "ValueError", err |-> "Incompatible types given"]
        ELSE IF r.neurodata_type = "IZeroClampSeries" /\ st # NoSeries
        THEN [exc |-> "ValueError",
              err |-> "stimulus should usually be None for IZeroClampSeries response"]
        ELSE IF r.electrode # st.electrode
        THEN [exc |-> "ValueError", err |-> "electrodes are usually expected to be the same"]
        ELSE [exc |-> "", err |-> ""]

\* lines 685 and 691: the cells stored in the stimulus and response columns
StimulusCell(a) ==
    IF a.stimulus # NoSeries
    THEN <<StartIndex(a.stimulus_start_index),
           IndexCount(a.stimulus, a.stimulus_start_index, a.stimulus_index_count),
           StimulusOrResponse(a).name>>
    ELSE <<a.stimulus_start_index, a.stimulus_index_count, StimulusOrResponse(a).name>>

ResponseCell(a) ==
    IF a.response # NoSeries
    THEN <<StartIndex(a.response_start_index),
           IndexCount(a.response, a.response_start_index, a.response_index_count),
           ResponseOrStimulus(a).name>>
    ELSE <<a.response_start_index, a.response_index_count, ResponseOrStimulus(a).name>>

\* the value add_recording hands to the first column of a category
CategoryValue(tbl, a) ==
    CASE tbl.name = "electrodes" -> a.electrode
      [] tbl.name = "stimuli" -> StimulusCell(a)
      [] tbl.name = "responses" -> ResponseCell(a)
      [] OTHER -> ValueAt(1, LenT(tbl))

\* DynamicTable.add_row(**values) on a category table of one column
category_add_row(tbl, a) ==
    [tbl EXCEPT !.id = Append(@, LenT(tbl)),
                !.cols = [i \in 1..Len(@) |->
                            [@[i] EXCEPT !.data = Append(@, CategoryValue(tbl, a))]]]

\* the keys add_recording hands to add_row that name a sub-payload
RecordingKeys(a) == {"electrodes", "responses", "stimuli"} \cup a.custom

\* add_recording on the table [main |-> m, category_tables |-> cts]: the
\* exception raised, the table after the call and the value returned
add_recording(m, cts, a) ==
    LET e == recording_error(a)
        names == {cts[i].name : i \in 1..Len(cts)}
        missing == names \ RecordingKeys(a)
        e_main == dt_add_row_error(m, RecordingKeys(a) \subseteq names, a.id, TRUE)
        same == [main |-> m, category_tables |-> cts]
    IN  IF e.exc # ""
        THEN [exc |-> e.exc, err |-> e.err, val |-> <<>>, tbl |-> same]
        ELSE IF missing # {}
        THEN [exc |-> "ValueError",
              err |-> "row data keys don't match available categories",
              val |-> missing, tbl |-> same]
        ELSE IF e_main # ""
        THEN [exc |-> "ValueError", err |-> e_main, val |-> <<>>, tbl |-> same]
        ELSE [exc |-> "", err |-> "", val |-> Len(m.id),
              tbl |-> [main |-> dt_add_row(m, a.id),
                       category_tables |->
                           [i \in 1..Len(cts) |-> category_add_row(cts[i], a)]]]

\* IntracellularRecordingsTable.add_recording
AddRecording(a) ==
    /\ constructed
    /\ LenT(main) < MaxRows
    /\ LET r == add_recording(main, category_tables, a)
       IN  /\ last' = Raised("add_recording", a, r.exc, r.err, r.val)
           /\ main' = r.tbl.main
           /\ category_tables' = r.tbl.category_tables
           /\ allOk' = (allOk /\ r.exc = "")
    /\ UNCHANGED <<constructed, nwb>>
    /\ UNCHANGED hvars

\* the index arguments tried: the defaults, a range inside the series, a
\* start at and beyond the sample count, and a range that ends beyond it
IndexArgs == {<<-1, -1>>, <<3, 2>>, <<NumSamples, -1>>, <<10, -1>>, <<3, 4>>}

NoIndex == <<-1, -1>>

\* the calls tried, without id and further categories
RecordingCalls ==
    {<<self_stimulus, i, self_response, NoIndex>> : i \in IndexArgs}
    \cup {<<self_stimulus, NoIndex, self_response, i>> : i \in IndexArgs}
    \cup {<<self_stimulus, i, NoSeries, NoIndex>> : i \in IndexArgs}
    \cup {<<NoSeries, NoIndex, self_response, i>> : i \in IndexArgs}
    \cup {<<self_stimulus, NoIndex, NoSeries, <<3, 2>>>>,
          <<NoSeries, <<3, 2>>, self_response, NoIndex>>,
          <<NoSeries, NoIndex, NoSeries, NoIndex>>,
          <<NoSeries, NoIndex, local_response, NoIndex>>,
          <<self_stimulus, NoIndex, local_response, NoIndex>>,
          <<current_stimulus, NoIndex, self_response, NoIndex>>,
          <<other_electrode_stimulus, NoIndex, self_response, NoIndex>>}

\* the constructor arguments tried
IRTables ==
    {NotGiven, Given(<<>>),
     Given(<<SideTable("cat1", 0, 0)>>),
     Given(<<SideTable("cat1", 1, 0)>>),
     Given(<<SideTable("cat1", 0, 0), SideTable("cat2", 1, 0)>>),
     Given(<<SideTable("cat1", 0, 0), IntracellularResponsesTable>>),
     Given(<<IntracellularElectrodesTable, IntracellularStimuliTable,
             IntracellularResponsesTable>>),
     Given(<<IntracellularStimuliTable, IntracellularResponsesTable>>)}

IRCategories ==
    {NotGiven, Given(<<"cat1">>), Given(<<"cat1", "cat2">>),
     Given(<<"cat1", "responses">>),
     Given(<<"stimuli", "responses">>),
     Given(<<"electrodes", "stimuli", "responses">>)}

NextRec ==
    \/ \E tbls \in IRTables, cats \in IRCategories : IRConstruct(tbls, cats)
    \/ \E c \in RecordingCalls, row_id \in {NoId, 1}, custom \in SUBSET {"cat1"} :
            AddRecording(RecordingArgs(c[1], c[2], c[3], c[4], row_id, custom))

SpecRec == InitSpec /\ [][NextRec]_vars

----------------------------------------------------------------------------
(* The recordings table: construction *)

IsIRInit == last.op = "IntracellularRecordingsTable"

RequiredNames == <<"electrodes", "stimuli", "responses">>

\* the categories electrodes, stimuli and responses are there, each an
\* instance of its table type
HasRequiredCategories ==
    \A k \in 1..3 :
        \E i \in 1..Len(category_tables) :
            /\ category_tables[i].name = RequiredNames[k]
            /\ TypeOf(category_tables[i]) = RequiredTypes[k]

\* the constructor was given category tables, all of them empty and none of
\* a required type
OnlyEmptyCustomTables(call) ==
    /\ call.args.category_tables.given
    /\ Len(call.args.category_tables.val) > 0
    /\ \A i \in 1..Len(call.args.category_tables.val) :
          /\ TypeOf(call.args.category_tables.val[i]) = "DynamicTable"
          /\ LenT(call.args.category_tables.val[i]) = 0

\* C30: every successfully constructed IntracellularRecordingsTable has the
\* categories 'electrodes', 'stimuli' and 'responses', each an instance of
\* its table type; construction with only empty custom category tables
\* succeeds and its categories are the three required ones and every custom
\* table supplied.
C30_RequiredCategoriesAdded ==
    IsIRInit =>
        /\ last.exc = "" => HasRequiredCategories
        /\ OnlyEmptyCustomTables(last) =>
              /\ last.exc = ""
              /\ HasRequiredCategories
              /\ Range(categories) =
                    Range(RequiredNames)
                    \cup {last.args.category_tables.val[i].name :
                            i \in 1..Len(last.args.category_tables.val)}

\* What the code does: a constructed table has the three required
\* categories, but with custom tables only the constructor appends the class
\* IntracellularResponsesTable instead of an instance and raises.
C30_CustomTablesOnlyRaises ==
    IsIRInit =>
        /\ last.exc = "" => HasRequiredCategories
        /\ OnlyEmptyCustomTables(last) => last.exc \in {"ValueError", "TypeError"}
        /\ (OnlyEmptyCustomTables(last) /\ last.args.categories = Given(<<"cat1">>)) =>
              last.exc = "TypeError"

\* a table constructed from a custom table and a responses table: the
\* stimuli and electrodes tables were added
C30_ConstructedWithCustomTable ==
    /\ IsIRInit /\ last.exc = ""
    /\ categories = <<"electrodes", "stimuli", "cat1", "responses">>

----------------------------------------------------------------------------
(* The recordings table: add_recording *)

IsAddRecording == last.op = "add_recording"

\* the cell of the last row of the category `name` in the tables cts
LastCell(cts, name) ==
    LET t == cts[CHOOSE i \in 1..Len(cts) : cts[i].name = name]
    IN  t.cols[1].data[LenT(t)]

\* the id and the further categories of the call a fit the table m, cts
FitsTable(m, cts, a) ==
    /\ a.custom = {cts[i].name : i \in 1..Len(cts)} \ Range(RequiredNames)
    /\ (IF a.id = NoId THEN LenT(m) ELSE a.id) \notin Range(m.id)

\* start and count lie within the series
InRange(series, start, count) ==
    /\ StartIndex(start) < series.num_samples
    /\ StartIndex(start) + IndexCount(series, start, count) <= series.num_samples

StimulusInRange(a) ==
    InRange(a.stimulus, a.stimulus_start_index, a.stimulus_index_count)

ResponseInRange(a) ==
    InRange(a.response, a.response_start_index, a.response_index_count)

NoRowAdded == main' = main /\ category_tables' = category_tables

\* C27: add_recording with an IZeroClampSeries response and stimulus=None
\* succeeds and adds a row whose stimulus cell is (-1, -1, response); only a
\* call with a stimulus and an IZeroClampSeries response is rejected.
C27_IZeroClampWithoutStimulus ==
    [][(last'.op = "add_recording"
          /\ last'.args.response.neurodata_type = "IZeroClampSeries"
          /\ last'.args.stimulus = NoSeries
          /\ last'.args.stimulus_start_index = -1
          /\ last'.args.stimulus_index_count = -1
          /\ ResponseInRange(last'.args)
          /\ FitsTable(main, category_tables, last'.args)) =>
            /\ last'.exc = ""
            /\ LenT(main') = LenT(main) + 1
            /\ LastCell(category_tables', "stimuli") =
                  <<-1, -1, last'.args.response.name>>]_vars

\* What the code does: the test for a stimulus runs after stimulus has been
\* replaced by the response, so every IZeroClampSeries response is rejected.
C27_IZeroClampAlwaysRejected ==
    [][(last'.op = "add_recording"
          /\ last'.args.response.neurodata_type = "IZeroClampSeries"
          /\ ResponseInRange(last'.args)) =>
            /\ last'.exc = "ValueError"
            /\ last'.err = "stimulus should usually be None for IZeroClampSeries response"
            /\ NoRowAdded]_vars

\* C22: add_recording with exactly one of stimulus and response stores the
\* same series in both cells, (-1, -1) as start and count of the side not
\* given and (0, N) for the side given without explicit indices; with both
\* absent it fails with a ValueError and adds no row.
C22_OneSeriesGiven ==
    [][last'.op = "add_recording" =>
        LET a == last'.args
            stim_cell == LastCell(category_tables', "stimuli")
            resp_cell == LastCell(category_tables', "responses")
        IN  /\ (a.stimulus = NoSeries /\ a.response = NoSeries) =>
                  (last'.exc = "ValueError" /\ NoRowAdded)
            /\ (a.stimulus # NoSeries /\ a.response = NoSeries
                  /\ StimulusInRange(a) /\ FitsTable(main, category_tables, a)) =>
                  /\ last'.exc = ""
                  /\ LenT(main') = LenT(main) + 1
                  /\ stim_cell[3] = a.stimulus.name /\ resp_cell[3] = a.stimulus.name
                  /\ resp_cell[1] = -1 /\ resp_cell[2] = -1
                  /\ (a.stimulus_start_index = -1 /\ a.stimulus_index_count = -1) =>
                        (stim_cell[1] = 0 /\ stim_cell[2] = a.stimulus.num_samples)
            /\ (a.stimulus = NoSeries /\ a.response # NoSeries
                  /\ ResponseInRange(a) /\ FitsTable(main, category_tables, a)) =>
                  /\ last'.exc = ""
                  /\ LenT(main') = LenT(main) + 1
                  /\ stim_cell[3] = a.response.name /\ resp_cell[3] = a.response.name
                  /\ stim_cell[1] = -1 /\ stim_cell[2] = -1
                  /\ (a.response_start_index = -1 /\ a.response_index_count = -1) =>
                        (resp_cell[1] = 0 /\ resp_cell[2] = a.response.num_samples)]_vars

\* What the code does: the same, for a response that is no IZeroClampSeries
\* and with the start and count of the side not given stored as passed
\* (-1, -1 is their default).
C22_OneSeriesGivenAsPassed ==
    [][last'.op = "add_recording" =>
        LET a == last'.args
            stim_cell == LastCell(category_tables', "stimuli")
            resp_cell == LastCell(category_tables', "responses")
        IN  /\ (a.stimulus = NoSeries /\ a.response = NoSeries) =>
                  (last'.exc = "ValueError" /\ NoRowAdded)
            /\ (a.stimulus # NoSeries /\ a.response = NoSeries
                  /\ StimulusInRange(a) /\ FitsTable(main, category_tables, a)) =>
                  /\ last'.exc = ""
                  /\ LenT(main') = LenT(main) + 1
                  /\ stim_cell[3] = a.stimulus.name /\ resp_cell[3] = a.stimulus.name
                  /\ resp_cell[1] = a.response_start_index
                  /\ resp_cell[2] = a.response_index_count
                  /\ (a.stimulus_start_index = -1 /\ a.stimulus_index_count = -1) =>
                        (stim_cell[1] = 0 /\ stim_cell[2] = a.stimulus.num_samples)
            /\ (a.stimulus = NoSeries /\ a.response # NoSeries
                  /\ a.response.neurodata_type # "IZeroClampSeries"
                  /\ ResponseInRange(a) /\ FitsTable(main, category_tables, a)) =>
                  /\ last'.exc = ""
                  /\ LenT(main') = LenT(main) + 1
                  /\ stim_cell[3] = a.response.name /\ resp_cell[3] = a.response.name
                  /\ stim_cell[1] = a.stimulus_start_index
                  /\ stim_cell[2] = a.stimulus_index_count
                  /\ (a.response_start_index = -1 /\ a.response_index_count = -1) =>
                        (resp_cell[1] = 0 /\ resp_cell[2] = a.response.num_samples)]_vars

\* C23: for the stimulus and for the response alike, add_recording fails
\* with an IndexError and adds no row when the start index is equal to or
\* greater than the sample count or start plus count is greater than it;
\* every stored (start, count) of a supplied series satisfies
\* 0 <= start < N and start + count <= N.
C23_IndexRange ==
    [][last'.op = "add_recording" =>
        LET a == last'.args
            stim_cell == LastCell(category_tables', "stimuli")
            resp_cell == LastCell(category_tables', "responses")
        IN  /\ (a.stimulus # NoSeries /\ ~StimulusInRange(a)) =>
                  (last'.exc = "IndexError" /\ NoRowAdded)
            /\ (a.response # NoSeries /\ ~ResponseInRange(a)) =>
                  (last'.exc = "IndexError" /\ NoRowAdded)
            /\ (a.stimulus # NoSeries /\ last'.exc = "") =>
                  /\ 0 <= stim_cell[1] /\ stim_cell[1] < a.stimulus.num_samples
                  /\ stim_cell[1] + stim_cell[2] <= a.stimulus.num_samples
            /\ (a.response # NoSeries /\ last'.exc = "") =>
                  /\ 0 <= resp_cell[1] /\ resp_cell[1] < a.response.num_samples
                  /\ resp_cell[1] + resp_cell[2] <= a.response.num_samples]_vars

\* What the code does: the claimed checks for the stimulus; a response start
\* equal to the sample count passes when the count is 0 or left out.
C23_IndexRangeButResponseStartAtEnd ==
    [][last'.op = "add_recording" =>
        LET a == last'.args
            resp_at_end == /\ a.response # NoSeries
                           /\ a.response_start_index = a.response.num_samples
                           /\ a.response_index_count <= 0
            stim_cell == LastCell(category_tables', "stimuli")
            resp_cell == LastCell(category_tables', "responses")
        IN  /\ (a.stimulus # NoSeries /\ ~StimulusInRange(a)) =>
                  (last'.exc = "IndexError" /\ NoRowAdded)
            /\ (a.response # NoSeries /\ ~ResponseInRange(a) /\ ~resp_at_end) =>
                  (last'.exc = "IndexError" /\ NoRowAdded)
            /\ (a.stimulus # NoSeries /\ last'.exc = "") =>
                  /\ 0 <= stim_cell[1] /\ stim_cell[1] < a.stimulus.num_samples
                  /\ stim_cell[1] + stim_cell[2] <= a.stimulus.num_samples
            /\ (a.response # NoSeries /\ last'.exc = "" /\ ~resp_at_end) =>
                  /\ 0 <= resp_cell[1] /\ resp_cell[1] < a.response.num_samples
                  /\ resp_cell[1] + resp_cell[2] <= a.response.num_samples]_vars

\* a stored response that starts at the sample count, with count 0
C23_ResponseStartAtEndStored ==
    /\ IsAddRecording /\ last.exc = ""
    /\ LastCell(category_tables, "responses") = <<NumSamples, 0, self_response.name>>

----------------------------------------------------------------------------
(* ICEphysFile: the five icephys tables, created on demand                  *)

GetterNames ==
    <<"get_intracellular_recordings", "get_icephys_simultaneous_recordings",
      "get_icephys_sequential_recordings", "get_icephys_repetitions",
      "get_icephys_experimental_conditions">>

AdderNames ==
    <<"add_intracellular_recording", "add_icephys_simultaneous_recording",
      "add_icephys_sequential_recording", "add_icephys_repetition",
      "add_icephys_experimental_condition">>

\* a table object that is none of the file's tables
NewOid(f) == 1 + (CHOOSE n \in {f[k].oid : k \in 1..Len(f)} :
                    \A k \in 1..Len(f) : f[k].oid <= n)

\* the getter that builds a new table whether or not the file has one
RECURSIVE get_icephys_table_always_new(_, _)
get_icephys_table_always_new(f, k) ==
    LET g == IF k > 1 THEN get_icephys_table_always_new(f, k - 1) ELSE f
    IN  [g EXCEPT ![k] = [NoTable EXCEPT !.oid = NewOid(g),
                                        !.target = IF k > 1 THEN g[k - 1].oid ELSE 0]]

\* get_intracellular_recordings (k = 1) and get_icephys_* (k > 1): the file
\* after the call. A missing table is built on the table the getter of the
\* level below returns; an existing one is left alone.
RECURSIVE get_icephys_table(_, _)
get_icephys_table(f, k) ==
    IF f[k].oid # 0 THEN f
    ELSE LET g == IF k > 1 THEN get_icephys_table(f, k - 1) ELSE f
         IN  [g EXCEPT ![k] = [NoTable EXCEPT !.oid = NewOid(g),
                                             !.target = IF k > 1 THEN g[k - 1].oid ELSE 0]]

\* the rows of the file's intracellular_recordings table in the file f: those
\* of a new IntracellularRecordingsTable() when the call has just built it
FileRecordings(f) ==
    IF nwb[1].oid = f[1].oid
    THEN [main |-> main, category_tables |-> category_tables]
    ELSE [main |-> IRInitMain(NotGiven, NotGiven),
          category_tables |-> IRInitCategoryTables(NotGiven, NotGiven)]

\* one of the five getters
GetIcephysTable(k) ==
    LET f == get_icephys_table(nwb, k)
    IN  /\ nwb' = f
        /\ main' = FileRecordings(f).main
        /\ category_tables' = FileRecordings(f).category_tables
        /\ constructed' = TRUE
        /\ last' = Returned(GetterNames[k], <<>>, f[k].oid)
        /\ UNCHANGED <<allOk>>
        /\ UNCHANGED hvars

\* add_intracellular_recording: get_intracellular_recordings().add_recording
AddIntracellularRecording(a) ==
    /\ LenT(main) < MaxRows
    /\ LET f == get_icephys_table(nwb, 1)
           r == add_recording(FileRecordings(f).main,
                              FileRecordings(f).category_tables, a)
       IN  /\ nwb' = [f EXCEPT ![1].id = r.tbl.main.id]
           /\ main' = r.tbl.main
           /\ category_tables' = r.tbl.category_tables
           /\ constructed' = TRUE
           /\ last' = Raised(AdderNames[1], a, r.exc, r.err, r.val)
           /\ allOk' = (allOk /\ r.exc = "")
    /\ UNCHANGED hvars

\* add_icephys_simultaneous_recording, add_icephys_sequential_recording,
\* add_icephys_repetition, add_icephys_experimental_condition (k = 2..5):
\* the getter, then the table's row builder, which is
\* DynamicTable.add_row(enforce_unique_id=True, ...)
AddIcephys(k, refs, row_id) ==
    /\ Len(nwb[k].id) < MaxRows
    /\ LET f == get_icephys_table(nwb, k)
           e == dt_add_row_error(f[k], TRUE, row_id, TRUE)
           args == [refs |-> refs, id |-> row_id]
       IN  /\ nwb' = IF e # "" THEN f
                     ELSE [f EXCEPT
                            ![k].id = Append(@, IF row_id = NoId THEN Len(@) ELSE row_id),
                            ![k].refs = Append(@, refs),
                            ![k].stimulus_type =
                                IF k = 3 THEN Append(@, "MyStimulusType") ELSE @]
           /\ main' = FileRecordings(f).main
           /\ category_tables' = FileRecordings(f).category_tables
           /\ constructed' = TRUE
           /\ last' = Outcome(AdderNames[k], args, e,
                              IF e = "" THEN Len(f[k].id) ELSE <<>>)
           /\ allOk' = (allOk /\ e = "")
    /\ UNCHANGED hvars

\* the parent table taken from the bottom of the hierarchy
get_icephys_meta_parent_table_lowest(f) ==
    IF f[1].oid # 0 THEN f[1]
    ELSE IF f[2].oid # 0 THEN f[2]
    ELSE IF f[3].oid # 0 THEN f[3]
    ELSE IF f[4].oid # 0 THEN f[4]
    ELSE IF f[5].oid # 0 THEN f[5]
    ELSE NoTable

\* get_icephys_meta_parent_table: the if/elif chain from the top level down
get_icephys_meta_parent_table(f) ==
    IF f[5].oid # 0 THEN f[5]
    ELSE IF f[4].oid # 0 THEN f[4]
    ELSE IF f[3].oid # 0 THEN f[3]
    ELSE IF f[2].oid # 0 THEN f[2]
    ELSE IF f[1].oid # 0 THEN f[1]
    ELSE NoTable

GetIcephysMetaParentTable ==
    /\ last' = Returned("get_icephys_meta_parent_table", <<>>,
                        get_icephys_meta_parent_table(nwb).oid)
    /\ UNCHANGED <<nwb, main, category_tables, constructed, allOk>>
    /\ UNCHANGED hvars

\* the recordings added to a file: stimulus and response, a response alone,
\* and neither
FileRecordingCalls ==
    {<<self_stimulus, self_response>>, <<NoSeries, self_response>>,
     <<NoSeries, NoSeries>>}

NextFile ==
    \/ \E k \in 1..Len(Levels) : GetIcephysTable(k)
    \/ \E c \in FileRecordingCalls, row_id \in {NoId, 1} :
            AddIntracellularRecording(
                RecordingArgs(c[1], NoIndex, c[2], NoIndex, row_id, {}))
    \/ \E k \in 2..Len(Levels), row_id \in {NoId, 0} : AddIcephys(k, <<0>>, row_id)
    \/ GetIcephysMetaParentTable

SpecFile == InitSpec /\ [][NextFile]_vars

----------------------------------------------------------------------------
(* The file and its tables: ids, parent table, creation on demand *)

\* the level of the table the last call added a row to, 0 for other calls
AdderLevel(call) ==
    IF \E k \in 1..Len(Levels) : call.op = AdderNames[k]
    THEN CHOOSE k \in 1..Len(Levels) : call.op = AdderNames[k]
    ELSE 0

PairwiseDistinct(ids) ==
    \A i, j \in 1..Len(ids) : i # j => ids[i] # ids[j]

\* C21: each level row builder called with an id that is already in its
\* table fails with a ValueError and leaves the table (for add_recording
\* every category table too) unchanged; the row ids of each table are
\* pairwise distinct.
C21_UniqueIds ==
    /\ [](/\ \A k \in 1..Len(Levels) : PairwiseDistinct(nwb[k].id)
          /\ PairwiseDistinct(main.id) /\ nwb[1].id = main.id)
    /\ [][\A k \in 1..Len(Levels) :
            (/\ last'.op = AdderNames[k]
             /\ last'.args.id # NoId
             /\ last'.args.id \in Range(nwb[k].id)
             /\ (k = 1 => last'.args.stimulus # NoSeries \/ last'.args.response # NoSeries))
            => /\ last'.exc = "ValueError"
               /\ last'.err = "id already in the table"
               /\ nwb' = nwb
               /\ main' = main
               /\ category_tables' = category_tables]_vars

\* add_icephys_repetition called with the id of the one row of the
\* repetitions table, in a file whose recordings table has a row with id 1
C21_Witness ==
    /\ last.op = "add_icephys_repetition"
    /\ last.args.id = 0
    /\ last.err = "id already in the table"
    /\ nwb[4].id = <<0>>
    /\ main.id = <<1>>

\* add_intracellular_recording called with the id of the one recording
C21_WitnessRecording ==
    /\ last.op = "add_intracellular_recording"
    /\ last.args.id = 1
    /\ last.err = "id already in the table"
    /\ main.id = <<1>>
    /\ \A i \in 1..Len(category_tables) : LenT(category_tables[i]) = 1

\* the highest level of the file that has a table, 0 when none has
HighestLevel(f) ==
    IF \A k \in 1..Len(f) : f[k].oid = 0 THEN 0
    ELSE CHOOSE k \in 1..Len(f) :
            f[k].oid # 0 /\ \A j \in 1..Len(f) : f[j].oid # 0 => j <= k

\* C24: get_icephys_meta_parent_table() returns the table of the highest
\* level that exists (experimental_conditions > repetitions >
\* sequential_recordings > simultaneous_recordings >
\* intracellular_recordings), None when there is none, and that level never
\* decreases under add_intracellular_recording / add_icephys_* calls.
C24_ParentTable ==
    /\ [](last.op = "get_icephys_meta_parent_table" =>
            last.val = IF HighestLevel(nwb) = 0 THEN 0
                       ELSE nwb[HighestLevel(nwb)].oid)
    /\ [][HighestLevel(nwb') >= HighestLevel(nwb)]_vars

\* the parent table asked for in a file whose highest table is the
\* sequential recordings table, which has a row
C24_Witness ==
    /\ last.op = "get_icephys_meta_parent_table"
    /\ HighestLevel(nwb) = 3
    /\ last.val = nwb[3].oid
    /\ Len(nwb[3].id) >= 1

\* the call before any table exists returns None
C24_WitnessNone ==
    /\ last.op = "get_icephys_meta_parent_table"
    /\ last.val = 0

\* C26: whenever the table of a level exists, the tables of all lower
\* levels exist, each table's hierarchy column targets the file's table of
\* the level directly below, and an existing table is returned as it is by
\* the get_* functions and never replaced.
C26_LazyLevels ==
    /\ [](\A k \in 1..Len(Levels) :
            nwb[k].oid # 0 =>
                /\ \A j \in 1..(k - 1) : nwb[j].oid # 0 /\ nwb[j].oid # nwb[k].oid
                /\ k > 1 => nwb[k].target = nwb[k - 1].oid)
    /\ [][\A k \in 1..Len(Levels) :
            nwb[k].oid # 0 =>
                /\ nwb'[k].oid = nwb[k].oid
                /\ nwb'[k].target = nwb[k].target
                /\ last'.op = GetterNames[k] =>
                      (last'.val = nwb[k].oid /\ nwb' = nwb)]_vars

\* get_icephys_repetitions on a file that has its repetitions table, with
\* rows, and no experimental conditions table
C26_Witness ==
    /\ last.op = "get_icephys_repetitions"
    /\ last.val = nwb[4].oid
    /\ Len(nwb[4].id) = MaxRows
    /\ nwb[5].oid = 0
    /\ nwb[1].id = <<>>

====
